---- MODULE Spec2Model ----
(***************************************************************************)
(* Hermes server: client registry, webhook receiver, relevance predicate,   *)
(* dispatcher and manual notifications.                                     *)
(*                                                                         *)
(* Strings whose case matters (display names, group names, dict keys) are  *)
(* sequences of ASCII codes so that str.lower() is computed, not assumed.  *)
(* Identifiers that are only compared for equality are TLA+ strings.       *)
(***************************************************************************)
EXTENDS Integers, Sequences, FiniteSets, TLC

VARIABLES
    rc, rn, rg, rout,   \* the relevance predicate on enumerated inputs
    dl,                 \* DELETE /clients/{id} applied twice to one registry
    ev,                 \* an operation applied to enumerated inputs: inputs, results
    ado_configured,     \* settings.ADO_PAT and settings.ADO_ORGANIZATION_URL are set
    avatar_cache,       \* ado_client._avatar_cache
    calls,              \* calls of get_user_avatar_b64 / get_user_groups, in order of start
    secret,             \* settings.ADO_WEBHOOK_SECRET
    clients,            \* clients.json: the records in insertion order, ids 1..Len
    ops,                \* number of requests received so far; also the clock
    seq,                \* TRUE when each request completes before the next starts
    reg,                \* the register requests in flight
    upd,                \* the subscription-update request in flight
    disp,               \* the dispatch in flight
    posts,              \* POSTs made by the current dispatch, per loaded record
    log,                \* notifications.log
    group_cache         \* ado_client._group_cache

\* what no request of the server changes: the inputs and results of the
\* operators evaluated on enumerated inputs, and the configuration
idvars == <<ado_configured, avatar_cache, calls>>
relvars == <<rc, rn, rg, rout, dl, ev, secret, idvars>>
srvvars == <<clients, ops, seq, reg, upd, disp, posts, log, group_cache>>
vars == <<rc, rn, rg, rout, dl, ev, secret, ado_configured, avatar_cache,
          calls, clients, ops, seq, reg, upd, disp, posts, log, group_cache>>

-----------------------------------------------------------------------------
(* Bounds of the model *)

\* longest mentions.user_ids list enumerated for the relevance predicate
MaxUserIds == 2
\* longest mentions.names list enumerated for the relevance predicate
MaxNames == 1
\* requests received by the server
MaxOps == 3
\* the write calls json.dump makes for one file, and the crashes of the
\* server process in one behaviour
MaxChunks == 2
MaxCrashes == 1
\* lines written to the notification log
MaxLogLines == 4
\* HERMES_LOG_MAX_BYTES, counted in lines: the active file is rolled when
\* the next line would bring it to this size
LOG_MAX_BYTES == 2
\* HERMES_LOG_BACKUP_COUNT: rolled files kept beside the active one
LOG_BACKUP_COUNT == 2
\* largest limit passed to get_logs
MaxLimit == 2
\* calls of the identity service
MaxCalls == 3
\* identity dicts passed to the mentions builder
MaxIdentities == 3
\* reviewers of the pull requests formatted on their own
MaxReviewers == 2
\* group ids resolved per request (40 in ado_client.py), scaled down so that
\* a short memberOf list takes more than one request
batch_size == 1

-----------------------------------------------------------------------------
(* Python values *)

\* Python None
NoneVal == "<None>"

\* truthiness of an optional string: None and "" are falsy
Truthy(x) == x # NoneVal /\ x # ""

Range(s) == {s[i] : i \in 1..Len(s)}

SeqsUpTo(S, n) == UNION {[1..k -> S] : k \in 0..n}

\* str.lower() on a sequence of ASCII codes
Lower(s) == [i \in 1..Len(s) |-> IF s[i] \in 65..90 THEN s[i] + 32 ELSE s[i]]

\* "Backend Team", "backend team", "Frontend Team" (abbreviated BT, bt, FT)
N_BackendTeam == <<66, 84>>
N_backendteam == <<98, 116>>
N_FrontendTeam == <<70, 84>>
\* a display name that happens to read "Names"
N_Names == <<78, 97, 109, 101, 115>>
\* display names of the two users
N_Alice == <<65, 108>>
N_Bob == <<66, 111>>

\* the keys of the dict get_user_groups returns: "ids" and "names"
K_ids == <<105, 100, 115>>
K_names == <<110, 97, 109, 101, 115>>

-----------------------------------------------------------------------------
(* Domains *)

\* ADO identity ids of users, and of one group
UIDS == {"A", "B"}
GIDS == {"G1"}
URLS == {"u1", "u2"}
SUBS == {{"pr"}, {"workitem", "manual"}, {"all"}}
GroupNames == {N_BackendTeam, N_backendteam, N_FrontendTeam}
MentionNames == {N_BackendTeam, N_FrontendTeam, N_Names}

\* what get_user_groups returns: {"ids": [...], "names": [...]}
EmptyGroups == [ids |-> <<>>, names |-> <<>>]
GroupAnswers == [ids : SeqsUpTo(GIDS, 1), names : SeqsUpTo(GroupNames, 1)]

\* make_client; last_seen is << >> for None, else <<time of the delivery>>
make_client(id, callback_url, ado_user_id, subscriptions) ==
    [id |-> id, callback_url |-> callback_url, ado_user_id |-> ado_user_id,
     subscriptions |-> subscriptions, active |-> TRUE, last_seen |-> <<>>]

-----------------------------------------------------------------------------
(* dispatcher._client_is_relevant *)

mentioned_user_ids(notification) == Range(notification.mentions.user_ids)

\* [n.lower() for n in mentions.get("names", [])]
mentioned_names(notification) ==
    {Lower(nm) : nm \in Range(notification.mentions.names)}

\* subscription check: event_type in subs or "all" in subs
SubscriptionGate(client, notification) ==
    \/ notification.event_type \in client.subscriptions
    \/ "all" \in client.subscriptions

\* faulty variant: the actor is suppressed even when explicitly mentioned
ActorSuppressed_NoOverride(client, notification) ==
    /\ Truthy(notification.actor_id)
    /\ Truthy(client.ado_user_id)
    /\ notification.actor_id = client.ado_user_id

\* the actor is not notified of their own action unless explicitly mentioned
ActorSuppressed(client, notification) ==
    /\ Truthy(notification.actor_id)
    /\ Truthy(client.ado_user_id)
    /\ notification.actor_id = client.ado_user_id
    /\ client.ado_user_id \notin mentioned_user_ids(notification)

\* faulty variant: a notification without mentions is for nobody
IsBroadcast_Never(notification) == FALSE

\* if not mentioned_user_ids and not mentioned_names: return True
IsBroadcast(notification) ==
    /\ mentioned_user_ids(notification) = {}
    /\ mentioned_names(notification) = {}

DirectMatch(client, notification) ==
    /\ Truthy(client.ado_user_id)
    /\ client.ado_user_id \in mentioned_user_ids(notification)

\* the guard of the group branch: if client_uid and mentioned_names
GroupBranch(client, notification) ==
    /\ Truthy(client.ado_user_id)
    /\ mentioned_names(notification) # {}

\* `for group in client_groups`: client_groups is the dict returned by
\* get_user_groups, and iterating a dict yields its keys
IterGroups(client_groups) == <<K_ids, K_names>>

\* for group in client_groups: if group.lower() in mentioned_names: return True
GroupMatch(client_groups, notification) ==
    \E i \in 1..Len(IterGroups(client_groups)) :
        Lower(IterGroups(client_groups)[i]) \in mentioned_names(notification)

\* faulty variant: the groups are looked up before the direct match is tried
RelevantBeforeGroups_Eager(client, notification) ==
    IF ~SubscriptionGate(client, notification) THEN "false"
    ELSE IF notification.event_type = "manual" THEN "true"
    ELSE IF ActorSuppressed(client, notification) THEN "false"
    ELSE IF IsBroadcast(notification) THEN "true"
    ELSE IF GroupBranch(client, notification) THEN "groups"
    ELSE IF DirectMatch(client, notification) THEN "true"
    ELSE "false"

\* the outcome before any group lookup: "true", "false", or "groups" when
\* the predicate goes on to await get_user_groups
RelevantBeforeGroups(client, notification) ==
    IF ~SubscriptionGate(client, notification) THEN "false"
    ELSE IF notification.event_type = "manual" THEN "true"
    ELSE IF ActorSuppressed(client, notification) THEN "false"
    ELSE IF IsBroadcast(notification) THEN "true"
    ELSE IF DirectMatch(client, notification) THEN "true"
    ELSE IF GroupBranch(client, notification) THEN "groups"
    ELSE "false"

\* the whole predicate, given what get_user_groups answers for the client;
\* calls counts the get_user_groups calls made
_client_is_relevant(client, notification, client_groups) ==
    LET pre == RelevantBeforeGroups(client, notification)
    IN  IF pre = "groups"
        THEN [result |-> GroupMatch(client_groups, notification), calls |-> 1]
        ELSE [result |-> (pre = "true"), calls |-> 0]

-----------------------------------------------------------------------------
(* formatter: the mentions envelope of pull-request notifications *)

\* an ADO identity dict; {} is the identity with no id and no display name
Identity(id, displayName) ==
    [id |-> id, uniqueName |-> "", displayName |-> displayName]
NoIdentity == Identity(NoneVal, <<>>)
I_Alice == Identity("A", N_Alice)
I_Bob == Identity("B", N_Bob)
I_Team == Identity("G1", N_BackendTeam)

\* the loop of _mentions over the identity dicts, user_ids doubling as `seen`
RECURSIVE mentions_loop(_, _, _, _)
mentions_loop(identity_dicts, actor_id, user_ids, names) ==
    IF identity_dicts = <<>>
    THEN [user_ids |-> user_ids, names |-> names]
    ELSE LET ident == Head(identity_dicts)
             uid == IF Truthy(ident.id) THEN ident.id ELSE ident.uniqueName
             name == ident.displayName
         IN  IF ~Truthy(uid) \/ uid = actor_id \/ uid \in Range(user_ids)
             THEN mentions_loop(Tail(identity_dicts), actor_id, user_ids, names)
             ELSE mentions_loop(Tail(identity_dicts), actor_id,
                                Append(user_ids, uid),
                                IF name # <<>> THEN Append(names, name)
                                               ELSE names)

\* faulty variant: the actor is not excluded
_mentions_KeepActor(identity_dicts, actor_id) ==
    mentions_loop(identity_dicts, NoneVal, <<>>, <<>>)

_mentions(identity_dicts, actor_id) ==
    mentions_loop(identity_dicts, actor_id, <<>>, <<>>)

\* faulty variant: the merged branch forgets to add the PR author
merged_mentions_NoAuthor(reviewers, created_by, actor_id) ==
    _mentions(reviewers, actor_id)

\* the merged branch: reviewers except the actor, then always the PR author
merged_mentions(reviewers, created_by, actor_id) ==
    LET mentioned == _mentions(reviewers, actor_id)
        author_id == created_by.id
        author_name == created_by.displayName
    IN  IF Truthy(author_id) /\ author_id \notin Range(mentioned.user_ids)
        THEN [user_ids |-> Append(mentioned.user_ids, author_id),
              names |-> IF author_name # <<>>
                           /\ author_name \notin Range(mentioned.names)
                        THEN Append(mentioned.names, author_name)
                        ELSE mentioned.names]
        ELSE mentioned

\* d.get(key, default) of a payload dict: a record without the field is a
\* dict without the key
get(d, key, default) == IF key \in DOMAIN d THEN d[key] ELSE default

\* a or b of two strings
Or(a, b) == IF a # <<>> THEN a ELSE b

\* status image keys, as strings of character codes: "new pr",
\* "pr updated", "pr merged", "pr comment", "workitem comment", "success",
\* "failure", "cancelled"
S_new_pr == <<110, 101, 119, 32, 112, 114>>
S_pr_updated == <<112, 114, 32, 117, 112, 100, 97, 116, 101, 100>>
S_pr_merged == <<112, 114, 32, 109, 101, 114, 103, 101, 100>>
S_pr_comment == <<112, 114, 32, 99, 111, 109, 109, 101, 110, 116>>
S_workitem_comment ==
    <<119, 111, 114, 107, 105, 116, 101, 109, 32, 99, 111, 109, 109, 101,
      110, 116>>
S_success == <<115, 117, 99, 99, 101, 115, 115>>
S_failure == <<102, 97, 105, 108, 117, 114, 101>>
S_cancelled == <<99, 97, 110, 99, 101, 108, 108, 101, 100>>

\* result and status strings of Azure DevOps: "succeeded", "Succeeded",
\* "failed", "canceled", "partiallySucceeded", "partiallysucceeded",
\* "rejected", "unknown", "stopped"
R_succeeded == <<115, 117, 99, 99, 101, 101, 100, 101, 100>>
R_Succeeded == <<83, 117, 99, 99, 101, 101, 100, 101, 100>>
R_failed == <<102, 97, 105, 108, 101, 100>>
R_canceled == <<99, 97, 110, 99, 101, 108, 101, 100>>
R_partiallySucceeded ==
    <<112, 97, 114, 116, 105, 97, 108, 108, 121, 83, 117, 99, 99, 101, 101,
      100, 101, 100>>
R_partiallysucceeded ==
    <<112, 97, 114, 116, 105, 97, 108, 108, 121, 115, 117, 99, 99, 101, 101,
      100, 101, 100>>
R_rejected == <<114, 101, 106, 101, 99, 116, 101, 100>>
R_unknown == <<117, 110, 107, 110, 111, 119, 110>>
R_stopped == <<115, 116, 111, 112, 112, 101, 100>>

\* work-item types: "Work Item" (the default), "Bug", "bug"
T_WorkItem == <<87, 111, 114, 107, 32, 73, 116, 101, 109>>
T_Bug == <<66, 117, 103>>
T_bug == <<98, 117, 103>>

\* A url is the sequence of its path segments, "" is << >>: the API url and
\* the web link of a pull request, its remoteUrl, and the API url of a work
\* item
U_pr_api == <<"_apis", "git", "pullRequests", "42">>
U_pr_web == <<"_git", "repo", "pullrequest", "42">>
U_pr_remote == <<"repo", "pullrequest", "42">>
U_wi_api == <<"_apis", "wit", "workItems", "99">>
U_build_web == <<"_build", "results">>

\* "/_apis/" in url
has_apis(url) == \E i \in 1..(Len(url) - 1) : url[i] = "_apis"

\* "/_workitems" in url
has_workitems(url) == \E i \in 1..Len(url) : url[i] = "_workitems"

_clean_url(url) ==
    IF url = <<>> THEN <<>>
    ELSE IF has_apis(url) /\ ~has_workitems(url) THEN <<>>
    ELSE url

\* url.replace("/_apis/wit/workItems/", "/_workitems/edit/")
replace_workitems(url) ==
    LET at == {i \in 1..(Len(url) - 3) :
                   SubSeq(url, i, i + 2) = <<"_apis", "wit", "workItems">>}
    IN  IF at = {} THEN url
        ELSE LET i == CHOOSE i \in at : \A j \in at : i <= j
             IN  SubSeq(url, 1, i - 1) \o <<"_workitems", "edit">>
                 \o SubSeq(url, i + 3, Len(url))

\* pr.get("url") or pr.get("remoteUrl") or
\* pr.get("_links", {}).get("web", {}).get("href", ""); webHref is
\* _links.web.href
pr_url(pr) ==
    Or(get(pr, "url", <<>>),
       Or(get(pr, "remoteUrl", <<>>), get(pr, "webHref", <<>>)))

\* the status_image the pull-request formatter sets, << >> for None
pr_status_image(event_type) ==
    IF event_type = "ms.vss-code.git-pullrequest-comment-event"
    THEN <<S_pr_comment>>
    ELSE IF event_type = "git.pullrequest.created" THEN <<S_new_pr>>
    ELSE IF event_type = "git.pullrequest.merged" THEN <<S_pr_merged>>
    ELSE <<S_pr_updated>>

PR_EVENTS == {"git.pullrequest.created", "git.pullrequest.updated",
              "git.pullrequest.merged",
              "ms.vss-code.git-pullrequest-comment-event"}

\* a field value that is not a dict, as in "System.AssignedTo": "Alice"
PlainText(text) == [text |-> text]

\* the JSON value null, which json gives as None
JsonNull == [null |-> TRUE]

\* a value that is not a string where a string is expected: a number
NotAString == <<-1>>

\* isinstance(value, dict)
is_dict(value) == "id" \in DOMAIN value

\* isinstance(value, str)
is_str(value) == value # NotAString

\* _mentions skips a falsy value ("if not ident: continue") and calls .get
\* on every other one: it raises on a value that is neither falsy nor a dict
mentions_raises(identity_dicts) ==
    \E i \in 1..Len(identity_dicts) :
        /\ ~is_dict(identity_dicts[i])
        /\ identity_dicts[i] \notin {JsonNull, PlainText("")}

\* the values _mentions goes through, a skipped one taken as {}
skip_falsy(identity_dicts) ==
    [i \in 1..Len(identity_dicts) |->
        IF is_dict(identity_dicts[i]) THEN identity_dicts[i] ELSE NoIdentity]

\* _format_pr raises AttributeError when it calls .get on a value that is
\* not a dict
pr_raises(event_type, resource) ==
    LET created_by == resource.createdBy
        reviewers == resource.reviewers
    IN  IF event_type = "ms.vss-code.git-pullrequest-comment-event"
        THEN \/ ~is_dict(resource.commentAuthor)
             \/ mentions_raises(<<created_by>> \o reviewers)
        ELSE IF event_type = "git.pullrequest.merged"
        THEN \/ ~is_dict(IF resource.closedBy = <<>> THEN created_by
                         ELSE resource.closedBy[1])
             \/ mentions_raises(reviewers)
             \/ ~is_dict(created_by)
        ELSE ~is_dict(created_by) \/ mentions_raises(reviewers)

\* _format_workitem raises on "/_apis/" in url and on wi_type.lower() when
\* the value is not a string
workitem_raises(event_type, resource) ==
    \/ ~is_str(get(resource, "url", <<>>))
    \/ /\ event_type # "workitem.commented"
       /\ ~is_str(get(resource, "workItemType", <<>>))

\* _format_pipeline raises on .lower() of a value that is not a string and
\* on .get of a value that is not a dict
pipeline_raises(event_type, resource) ==
    IF event_type = "build.complete"
    THEN \/ ~is_str(get(resource, "result", <<>>))
         \/ ~is_dict(resource.requestedFor)
    ELSE IF event_type = "ms.vss-release.release-created-event"
    THEN ~is_dict(resource.createdBy)
    ELSE IF event_type = "ms.vss-release.deployment-completed-event"
    THEN \/ ~is_str(get(resource, "envStatus", <<>>))
         \/ ~is_dict(resource.requestedFor)
    ELSE ~is_dict(resource.modifiedBy)

\* resource.get("closedBy", created_by); closedBy is <<>> when the key is absent
merged_by(resource) ==
    IF resource.closedBy = <<>> THEN resource.createdBy
    ELSE resource.closedBy[1]

_format_pr(event_type, resource) ==
    LET created_by == resource.createdBy
        reviewers == resource.reviewers
        actor_id ==
            IF event_type = "ms.vss-code.git-pullrequest-comment-event"
            THEN resource.commentAuthor.id
            ELSE IF event_type = "git.pullrequest.merged"
            THEN merged_by(resource).id
            ELSE created_by.id
        mentioned ==
            IF event_type = "ms.vss-code.git-pullrequest-comment-event"
            THEN _mentions(skip_falsy(<<created_by>> \o reviewers), actor_id)
            ELSE IF event_type = "git.pullrequest.merged"
            THEN merged_mentions(skip_falsy(reviewers), created_by, actor_id)
            ELSE _mentions(skip_falsy(reviewers), actor_id)
    IN  [event_type |-> "pr", actor_id |-> actor_id, mentions |-> mentioned,
         status_image |-> pr_status_image(event_type),
         url |-> _clean_url(pr_url(resource))]

WORKITEM_EVENTS == {"workitem.created", "workitem.updated",
                    "workitem.commented", "workitem.resolved",
                    "workitem.closed"}

PIPELINE_EVENTS == {"build.complete", "ms.vss-release.release-created-event",
                    "ms.vss-release.deployment-completed-event",
                    "ms.vss-release.release-abandoned-event"}

\* "workitem comment" for a comment, else wi_type.lower() with wi_type
\* fields.get("System.WorkItemType", "Work Item")
workitem_status_image(event_type, resource) ==
    IF event_type = "workitem.commented" THEN <<S_workitem_comment>>
    ELSE <<Lower(get(resource, "workItemType", T_WorkItem))>>

workitem_url(resource) ==
    LET url == get(resource, "url", <<>>)
    IN  IF has_apis(url) THEN replace_workitems(url) ELSE url

\* faulty variant: the work-item formatter does not exclude the actor
_format_workitem_KeepActor(event_type, resource) ==
    LET assigned_to_raw == resource.assignedTo
        changed_by_raw == resource.changedBy
        actor_id == IF is_dict(changed_by_raw) THEN changed_by_raw.id
                    ELSE NoneVal
    IN  [event_type |-> "workitem", actor_id |-> actor_id,
         mentions |-> _mentions(<<IF is_dict(assigned_to_raw)
                                  THEN assigned_to_raw ELSE NoIdentity>>,
                                NoneVal),
         status_image |-> workitem_status_image(event_type, resource),
         url |-> _clean_url(workitem_url(resource))]

\* assignedTo and changedBy are fields["System.AssignedTo"] and
\* fields["System.ChangedBy"], {} when the key is absent; None is passed to
\* _mentions for an assignee that is not a dict, and is skipped like {}
_format_workitem(event_type, resource) ==
    LET assigned_to_raw == resource.assignedTo
        changed_by_raw == resource.changedBy
        actor_id == IF is_dict(changed_by_raw) THEN changed_by_raw.id
                    ELSE NoneVal
    IN  [event_type |-> "workitem", actor_id |-> actor_id,
         mentions |-> _mentions(<<IF is_dict(assigned_to_raw)
                                  THEN assigned_to_raw ELSE NoIdentity>>,
                                actor_id),
         status_image |-> workitem_status_image(event_type, resource),
         url |-> _clean_url(workitem_url(resource))]

\* faulty variant: a partially succeeded build has no status image
_BUILD_STATUS_IMAGE_NoPartial(result) ==
    IF result = R_succeeded THEN <<S_success>>
    ELSE IF result = R_failed THEN <<S_failure>>
    ELSE IF result \in {R_canceled, S_cancelled} THEN <<S_cancelled>>
    ELSE <<>>

\* _BUILD_STATUS_IMAGE.get(result), << >> for None
_BUILD_STATUS_IMAGE(result) ==
    IF result = R_succeeded THEN <<S_success>>
    ELSE IF result = R_failed THEN <<S_failure>>
    ELSE IF result = R_canceled THEN <<S_cancelled>>
    ELSE IF result = S_cancelled THEN <<S_cancelled>>
    ELSE IF result = R_partiallysucceeded THEN <<S_failure>>
    ELSE <<>>

\* _DEPLOY_STATUS_IMAGE.get(deploy_status), << >> for None
_DEPLOY_STATUS_IMAGE(deploy_status) ==
    IF deploy_status = R_succeeded THEN <<S_success>>
    ELSE IF deploy_status = R_rejected THEN <<S_failure>>
    ELSE IF deploy_status = R_failed THEN <<S_failure>>
    ELSE IF deploy_status = R_canceled THEN <<S_cancelled>>
    ELSE IF deploy_status = S_cancelled THEN <<S_cancelled>>
    ELSE <<>>

\* result is resource["result"] of a build and envStatus is
\* resource["environment"]["status"] of a deployment
pipeline_status_image(event_type, resource) ==
    IF event_type = "build.complete"
    THEN _BUILD_STATUS_IMAGE(Lower(get(resource, "result", R_unknown)))
    ELSE IF event_type = "ms.vss-release.deployment-completed-event"
    THEN _DEPLOY_STATUS_IMAGE(Lower(get(resource, "envStatus", R_unknown)))
    ELSE IF event_type = "ms.vss-release.release-abandoned-event"
    THEN <<S_cancelled>>
    ELSE <<>>

\* webHref is _links.web.href of the build or of the release
pipeline_url(event_type, resource) ==
    IF event_type = "build.complete"
    THEN Or(get(resource, "webHref", <<>>), get(resource, "url", <<>>))
    ELSE get(resource, "webHref", <<>>)

\* requestedFor is resource["requestedFor"] of a build and
\* resource["deployment"]["requestedFor"] of a deployment
_format_pipeline(event_type, resource) ==
    LET actor ==
            IF event_type = "ms.vss-release.release-created-event"
            THEN resource.createdBy
            ELSE IF event_type = "ms.vss-release.release-abandoned-event"
            THEN resource.modifiedBy
            ELSE resource.requestedFor
        mentioned ==
            IF event_type \in {"build.complete",
                               "ms.vss-release.deployment-completed-event"}
            THEN _mentions(<<resource.requestedFor>>, NoneVal)
            ELSE _mentions(<<>>, actor.id)
    IN  [event_type |-> "pipeline", actor_id |-> actor.id,
         mentions |-> mentioned,
         status_image |-> pipeline_status_image(event_type, resource),
         url |-> _clean_url(pipeline_url(event_type, resource))]

\* faulty variant: every event type is formatted as a pull-request event
format_webhook_AllPR(event_type, payload) ==
    <<_format_pr(event_type, payload)>>

\* faulty variant: the formatter fails on every payload and returns None
format_webhook_None(event_type, payload) == <<>>

\* an exception is raised inside the try block of format_webhook
formatter_raises(event_type, payload) ==
    IF event_type \in PR_EVENTS THEN pr_raises(event_type, payload)
    ELSE IF event_type \in WORKITEM_EVENTS
    THEN workitem_raises(event_type, payload)
    ELSE IF event_type \in PIPELINE_EVENTS
    THEN pipeline_raises(event_type, payload)
    ELSE FALSE

\* faulty variant: a payload the formatter cannot read is formatted as a
\* pull-request event of nobody
format_webhook_Lenient(event_type, payload) ==
    IF formatter_raises(event_type, payload)
    THEN <<[event_type |-> "pr", actor_id |-> NoneVal,
            mentions |-> [user_ids |-> <<>>, names |-> <<>>],
            status_image |-> <<>>, url |-> <<>>]>>
    ELSE IF event_type \in PR_EVENTS THEN <<_format_pr(event_type, payload)>>
    ELSE IF event_type \in WORKITEM_EVENTS
    THEN <<_format_workitem(event_type, payload)>>
    ELSE IF event_type \in PIPELINE_EVENTS
    THEN <<_format_pipeline(event_type, payload)>>
    ELSE <<>>

\* <<notification>>, or << >> for None: an event type that is not handled,
\* or an exception, which "except Exception" turns into None
format_webhook(event_type, payload) ==
    IF formatter_raises(event_type, payload) THEN <<>>
    ELSE IF event_type \in PR_EVENTS THEN <<_format_pr(event_type, payload)>>
    ELSE IF event_type \in WORKITEM_EVENTS
    THEN <<_format_workitem(event_type, payload)>>
    ELSE IF event_type \in PIPELINE_EVENTS
    THEN <<_format_pipeline(event_type, payload)>>
    ELSE <<>>

\* faulty variant: format_webhook has no try block
format_webhook_raises_Uncaught(event_type, payload) ==
    formatter_raises(event_type, payload)

\* an exception leaves format_webhook: never, its whole body is inside
\* "try ... except Exception"
format_webhook_raises(event_type, payload) == FALSE

\* the webhook payloads received
Payloads ==
    [eventType : {"git.pullrequest.merged"},
     createdBy : {I_Alice, I_Bob}, closedBy : {<<>>, <<I_Alice>>},
     reviewers : {<<>>, <<I_Team>>}, commentAuthor : {NoIdentity}]
    \cup
    [eventType : {"git.pullrequest.created", "weird.event"},
     createdBy : {I_Alice}, closedBy : {<<>>},
     reviewers : {<<I_Bob, I_Team>>}, commentAuthor : {NoIdentity}]

\* the bodies sent to the receiver alone: a PR created by Alice, a PR of Bob
\* merged with the Backend Team or with Alice as reviewer, an event type
\* that is not handled, and a body without eventType
HookPayloads ==
    [eventType : {"git.pullrequest.created", "weird.event", ""},
     createdBy : {I_Alice}, closedBy : {<<>>},
     reviewers : {<<I_Bob, I_Team>>}, commentAuthor : {NoIdentity}]
    \cup
    [eventType : {"git.pullrequest.merged"}, createdBy : {I_Bob},
     closedBy : {<<>>}, reviewers : {<<I_Team>>, <<I_Alice>>},
     commentAuthor : {NoIdentity}]

-----------------------------------------------------------------------------
(* database: the client registry *)

\* faulty variant: the lookup compares the wrong field, so it never finds a record
get_client_by_callback_WrongField(data, callback_url) ==
    LET hits == {i \in 1..Len(data) : data[i].ado_user_id = callback_url}
    IN  IF hits = {} THEN <<>>
        ELSE <<data[CHOOSE i \in hits : \A j \in hits : i <= j]>>

\* the first record with this callback_url as <<record>>, or << >> for None
get_client_by_callback(data, callback_url) ==
    LET hits == {i \in 1..Len(data) : data[i].callback_url = callback_url}
    IN  IF hits = {} THEN <<>>
        ELSE <<data[CHOOSE i \in hits : \A j \in hits : i <= j]>>

\* data.get(client_id) as <<record>>, or << >> for None
get_client(data, client_id) ==
    IF client_id \in 1..Len(data) THEN <<data[client_id]>> ELSE <<>>

\* data[client["id"]] = client
save_client(data, client) ==
    IF client.id \in 1..Len(data) THEN [data EXCEPT ![client.id] = client]
    ELSE Append(data, client)

\* faulty variant: the record is removed from the registry
delete_client_Remove(data, client_id) ==
    IF client_id \in 1..Len(data)
    THEN SubSeq(data, 1, client_id - 1) \o SubSeq(data, client_id + 1, Len(data))
    ELSE data

\* faulty variant: deleting an inactive record switches it on again
delete_client_Toggle(data, client_id) ==
    IF client_id \in 1..Len(data)
    THEN [data EXCEPT ![client_id].active = ~@]
    ELSE data

\* data[client_id]["active"] = False, when the id is known
delete_client(data, client_id) ==
    IF client_id \in 1..Len(data)
    THEN [data EXCEPT ![client_id].active = FALSE]
    ELSE data

\* what delete_client returns: False when the id is unknown
delete_client_found(data, client_id) == client_id \in 1..Len(data)

\* error is << >> for None, else <<message>>
make_log_entry(client_id, event_type, payload, success, error) ==
    [client_id |-> client_id, event_type |-> event_type, payload |-> payload,
     success |-> success, error |-> error]

-----------------------------------------------------------------------------
(* The server: requests and their steps.  A step runs a coroutine up to    *)
(* and including the store operation or HTTP request it awaits next; each  *)
(* store operation is atomic under the store lock, and another coroutine   *)
(* may run between two steps (every await is a possible suspension).       *)
(* The clock is the number of requests received.  Failures of the files    *)
(* themselves (clients.json, notifications.log) are not modelled.          *)

RegProcs == {1, 2}
RegSubs == {{"pr"}, {"workitem", "manual"}}
RegisterBodies ==
    [callback_url : URLS, ado_user_id : UIDS, subscriptions : RegSubs]
NoBody == [callback_url |-> "", ado_user_id |-> "", subscriptions |-> {}]
IdleReg == [pc |-> "idle", body |-> NoBody, existing |-> <<>>]
IdleUpd == [pc |-> "idle", subscriptions |-> {}, client |-> <<>>]
NoNotif == [event_type |-> "", actor_id |-> NoneVal,
            mentions |-> [user_ids |-> <<>>, names |-> <<>>]]
NoPayload == [eventType |-> "", createdBy |-> NoIdentity, closedBy |-> <<>>,
              reviewers |-> <<>>, commentAuthor |-> NoIdentity]
\* the webhook or manual send in flight; sig is the X-Hub-Signature header,
\* kept until the background task starts (the task is not given the header)
IdleDisp == [pc |-> "idle", n |-> NoNotif, src |-> NoPayload, sig |-> <<>>,
             snap |-> <<>>, rel |-> <<>>, grp |-> <<>>, send |-> <<>>,
             log0 |-> 0]
\* DELETE /clients/{id} applied twice: the id, the registry before, the
\* statuses answered, and the registry after the first application
NoDelete == [id |-> 0, before |-> <<>>, status |-> <<>>, once |-> <<>>]
\* no operation is being applied to enumerated inputs
NoEval == [op |-> "none"]

\* what the identity service answers on a cache miss: no groups (also on any
\* error), or membership of the Backend Team group
FetchAnswers == {EmptyGroups, [ids |-> <<"G1">>, names |-> <<N_BackendTeam>>]}
NotCached == <<>>

\* the identity service is configured, has cached no avatar and runs no call
IdentityIdle ==
    /\ ado_configured = TRUE
    /\ avatar_cache = [u \in UIDS |-> NotCached]
    /\ calls = <<>>

\* no request has been received
InitRequests ==
    /\ reg = [p \in RegProcs |-> IdleReg]
    /\ upd = IdleUpd
    /\ disp = IdleDisp
    /\ posts = <<>>
    /\ log = <<>>
    /\ group_cache = [u \in UIDS |-> NotCached]

\* init_db: clients.json is seeded with {}
InitServer ==
    /\ clients = <<>>
    /\ ops = 0
    /\ InitRequests

\* no request is between two of its steps and no background task is pending
Quiescent ==
    /\ \A p \in RegProcs : reg[p].pc # "looked"
    /\ upd.pc # "got"
    /\ disp.pc \notin {"scheduled", "running"}

CanStart ==
    /\ ops < MaxOps
    /\ seq => Quiescent

(* routers/clients.register_client *)

\* the request arrives and get_client_by_callback runs
RegisterLookup(p, body) ==
    /\ CanStart
    /\ reg[p].pc # "looked"
    /\ \A q \in RegProcs : q < p => reg[q].pc = "looked"
    /\ ops' = ops + 1
    /\ reg' = [reg EXCEPT ![p] =
                  [pc |-> "looked", body |-> body,
                   existing |-> get_client_by_callback(clients, body.callback_url)]]
    /\ UNCHANGED <<relvars, clients, seq, upd, disp, posts, log, group_cache>>

\* faulty variant: re-registration also forgets when the client was last seen
existing_update_Touch(existing, body) ==
    [f \in DOMAIN existing |->
        IF f = "active" THEN TRUE
        ELSE IF f = "last_seen" THEN <<>>
        ELSE IF f \in DOMAIN body \ {"callback_url"} THEN body[f]
        ELSE existing[f]]

\* faulty variant: re-registration leaves the active flag as it was
existing_update_KeepActive(existing, body) ==
    [f \in DOMAIN existing |->
        IF f \in DOMAIN body \ {"callback_url"} THEN body[f]
        ELSE existing[f]]

\* existing.update({...}): the fields of the body other than callback_url
\* are overwritten and active is set; every other field is kept
existing_update(existing, body) ==
    [f \in DOMAIN existing |->
        IF f = "active" THEN TRUE
        ELSE IF f \in DOMAIN body \ {"callback_url"} THEN body[f]
        ELSE existing[f]]

\* existing.update(...) or make_client(...), then save_client
RegisterSave(p) ==
    /\ reg[p].pc = "looked"
    /\ LET body == reg[p].body
           client ==
               IF reg[p].existing # <<>>
               THEN existing_update(reg[p].existing[1], body)
               ELSE make_client(Len(clients) + 1, body.callback_url,
                                body.ado_user_id, body.subscriptions)
       IN  /\ clients' = save_client(clients, client)
           /\ reg' = [reg EXCEPT ![p] =
                         [IdleReg EXCEPT !.pc = IF reg[p].existing # <<>>
                                               THEN "updated" ELSE "created"]]
    /\ UNCHANGED <<relvars, ops, seq, upd, disp, posts, log, group_cache>>

(* routers/clients.unregister_client *)

unregister_client(client_id) ==
    /\ CanStart
    /\ ops' = ops + 1
    /\ clients' = delete_client(clients, client_id)
    /\ UNCHANGED <<relvars, seq, reg, upd, disp, posts, log, group_cache>>

(* routers/clients.update_subscriptions *)

\* the request arrives and get_client runs; an unknown id answers 404
UpdateGet(client_id, subscriptions) ==
    /\ CanStart
    /\ upd.pc # "got"
    /\ ops' = ops + 1
    /\ upd' = IF get_client(clients, client_id) = <<>>
               THEN [IdleUpd EXCEPT !.pc = "404"]
               ELSE [pc |-> "got", subscriptions |-> subscriptions,
                     client |-> get_client(clients, client_id)]
    /\ UNCHANGED <<relvars, clients, seq, reg, disp, posts, log, group_cache>>

\* client["subscriptions"] = subscriptions, then save_client
UpdateSave ==
    /\ upd.pc = "got"
    /\ clients' = save_client(clients,
                     [upd.client[1] EXCEPT !.subscriptions = upd.subscriptions])
    /\ upd' = [IdleUpd EXCEPT !.pc = "saved"]
    /\ UNCHANGED <<relvars, ops, seq, reg, disp, posts, log, group_cache>>

(* routers/webhooks: the receiver *)

\* a value of the X-Hub-Signature header: its prefix and the digest after it;
\* the header is << >> when absent, else <<value>>
HeaderValue(prefix, mac) == [prefix |-> prefix, mac |-> mac]
\* the header sent with the empty string as value
EmptyHeader == HeaderValue("", <<>>)

\* hmac.new(key, body, sha1).hexdigest() as an ideal keyed hash: two digests
\* are equal exactly when the keys and the bodies are
HMAC_SHA1(key, body) == <<key, body>>

\* the secrets configured: none, or "k1"
Secrets == {"", "k1"}

\* what a sender puts in the header of a request with this body: nothing, the
\* empty string, the signature under "k1", under another key, without the
\* "sha1=" prefix, or the signature of another body
Signatures(body) ==
    {<<>>, <<EmptyHeader>>,
     <<HeaderValue("sha1=", HMAC_SHA1("k1", body))>>,
     <<HeaderValue("sha1=", HMAC_SHA1("k2", body))>>,
     <<HeaderValue("", HMAC_SHA1("k1", body))>>,
     <<HeaderValue("sha1=", HMAC_SHA1("k1", NoPayload))>>}

\* faulty variant: every request passes verification
_verify_secret_Accept(key, body, signature) == TRUE

_verify_secret(key, body, signature) ==
    IF key = "" THEN TRUE
    ELSE IF signature = <<>> \/ signature[1] = EmptyHeader THEN FALSE
    ELSE signature[1] = HeaderValue("sha1=", HMAC_SHA1(key, body))

\* the request is answered 401, 400 or 200 accepted; an accepted one has its
\* background task created, and the handler returns without awaiting it
receive_webhook(payload, signature) ==
    /\ CanStart
    /\ disp.pc \notin {"scheduled", "running"}
    /\ ops' = ops + 1
    /\ disp' = [IdleDisp EXCEPT
                   !.pc = IF ~_verify_secret(secret, payload, signature)
                          THEN "401"
                          ELSE IF ~Truthy(payload.eventType) THEN "400"
                          ELSE "scheduled",
                   !.src = payload, !.sig = signature, !.log0 = Len(log)]
    /\ posts' = <<>>
    /\ UNCHANGED <<relvars, clients, seq, reg, upd, log, group_cache>>

(* routers/webhooks._process and dispatcher.dispatch *)

\* faulty variant: the dispatcher forgets the active filter
IsActive_All(c) == TRUE

\* active = [c for c in clients if c.get("active")]
IsActive(c) == c.active

\* the background task: the webhook is formatted; None is dropped, a
\* notification starts a dispatch, which loads the registry; an exception
\* out of format_webhook would end the task
_process ==
    /\ disp.pc = "scheduled"
    /\ LET f == format_webhook(disp.src.eventType, disp.src)
       IN  IF format_webhook_raises(disp.src.eventType, disp.src)
           THEN /\ disp' = [IdleDisp EXCEPT !.pc = "raised", !.src = disp.src]
                /\ posts' = posts
           ELSE IF f = <<>>
           THEN /\ disp' = [IdleDisp EXCEPT !.pc = "dropped", !.src = disp.src]
                /\ posts' = posts
           ELSE /\ disp' = [pc |-> "running", n |-> f[1], src |-> disp.src,
                            sig |-> <<>>, snap |-> clients,
                            rel |-> [i \in 1..Len(clients) |->
                                        IF IsActive(clients[i]) THEN "todo"
                                        ELSE "skip"],
                            grp |-> [i \in 1..Len(clients) |-> EmptyGroups],
                            send |-> [i \in 1..Len(clients) |-> "none"],
                            log0 |-> Len(log)]
                /\ posts' = [i \in 1..Len(clients) |-> 0]
    /\ UNCHANGED <<relvars, clients, ops, seq, reg, upd, log, group_cache>>

(* routers/notifications.send_manual_notification *)

ManualNotif == [event_type |-> "manual", actor_id |-> NoneVal,
                mentions |-> [user_ids |-> <<>>, names |-> <<>>]]

\* faulty variant: subscribers to all are not targets
IsManualTarget_NoAll(c) == c.active /\ "manual" \in c.subscriptions

\* c.get("active") and ("manual" in subscriptions or "all" in subscriptions)
IsManualTarget(c) ==
    c.active /\ ("manual" \in c.subscriptions \/ "all" \in c.subscriptions)

\* the registry is loaded and the targets are chosen; with no target the
\* request returns at once, else each target gets a _send_one, whose steps
\* are those of dispatcher._send.  It shares the slot of the dispatch: one
\* fan-out is in flight at a time.
send_manual_notification ==
    /\ CanStart
    /\ disp.pc \notin {"scheduled", "running"}
    /\ ops' = ops + 1
    /\ IF \A i \in 1..Len(clients) : ~IsManualTarget(clients[i])
       THEN /\ disp' = [IdleDisp EXCEPT !.pc = "done", !.n = ManualNotif]
            /\ posts' = <<>>
       ELSE /\ disp' = [pc |-> "running", n |-> ManualNotif, src |-> NoPayload,
                        sig |-> <<>>, snap |-> clients,
                        rel |-> [i \in 1..Len(clients) |->
                                    IF IsManualTarget(clients[i]) THEN "true"
                                    ELSE "skip"],
                        grp |-> [i \in 1..Len(clients) |-> EmptyGroups],
                        send |-> [i \in 1..Len(clients) |-> "none"],
                        log0 |-> Len(log)]
            /\ posts' = [i \in 1..Len(clients) |-> 0]
    /\ UNCHANGED <<relvars, clients, seq, reg, upd, log, group_cache>>

(* dispatcher.dispatch and dispatcher._send *)

BoolStr(b) == IF b THEN "true" ELSE "false"

\* faulty variant: the record is read again from the registry when its
\* relevance is decided
loaded_client_Reread(d, i) ==
    IF i \in 1..Len(clients) THEN clients[i] ELSE d.snap[i]

\* the client dict taken from the list that dispatch loaded at its start
loaded_client(d, i) == d.snap[i]

\* _client_is_relevant(c, notification) up to its return or, on a miss of
\* the group cache, up to the request to the identity service
RelevanceStep(i) ==
    /\ disp.pc = "running"
    /\ i \in 1..Len(disp.snap)
    /\ disp.rel[i] = "todo"
    /\ LET c == loaded_client(disp, i)
           pre == RelevantBeforeGroups(c, disp.n)
           cached == group_cache[c.ado_user_id]
       IN  IF pre # "groups"
           THEN disp' = [disp EXCEPT !.rel[i] = pre]
           ELSE IF cached # NotCached
           THEN disp' = [disp EXCEPT
                            !.rel[i] = BoolStr(GroupMatch(cached[1], disp.n)),
                            !.grp[i] = cached[1]]
           ELSE disp' = [disp EXCEPT !.rel[i] = "fetching"]
    /\ UNCHANGED <<relvars, clients, ops, seq, reg, upd, posts, log, group_cache>>

\* the identity service answers; get_user_groups caches and returns, and
\* the group loop decides
GroupsFetched(i, answer) ==
    /\ disp.pc = "running"
    /\ i \in 1..Len(disp.snap)
    /\ disp.rel[i] = "fetching"
    /\ group_cache' = [group_cache EXCEPT ![disp.snap[i].ado_user_id] = <<answer>>]
    /\ disp' = [disp EXCEPT !.rel[i] = BoolStr(GroupMatch(answer, disp.n)),
                            !.grp[i] = answer]
    /\ UNCHANGED <<relvars, clients, ops, seq, reg, upd, posts, log>>

\* faulty variant: the deliveries do not wait for the first gather
RelevanceDone_NoWait(d) == TRUE

\* the first gather has returned: every relevance coroutine is finished
RelevanceDone(d) == \A i \in 1..Len(d.snap) : d.rel[i] \in {"skip", "true", "false"}

\* _send up to http.post
SendPost(i) ==
    /\ disp.pc = "running"
    /\ RelevanceDone(disp)
    /\ i \in 1..Len(disp.snap)
    /\ disp.rel[i] = "true"
    /\ disp.send[i] = "none"
    /\ disp' = [disp EXCEPT !.send[i] = "posted"]
    /\ posts' = [posts EXCEPT ![i] = @ + 1]
    /\ UNCHANGED <<relvars, clients, ops, seq, reg, upd, log, group_cache>>

\* how the callback answers the POST: a 2xx status, another status (or a
\* refused connection: an exception that carries a message), or no answer
\* within the timeout
Outcomes == {"2xx", "non2xx", "timeout"}

\* faulty variant: whatever the callback answers, the try block completes
Raises_Never(outcome) == FALSE

\* http.post raises when the request fails, resp.raise_for_status() on a
\* status that is not 2xx
Raises(outcome) == outcome # "2xx"

\* str(e): the message of the exception; a timeout carries none
str_e(outcome) == IF outcome = "timeout" THEN "" ELSE "HTTPStatusError"

\* the callback answers: on 2xx last_seen is set on the loaded record and the
\* record is saved; on an exception nothing is written
SendResponse(i, outcome) ==
    /\ disp.pc = "running"
    /\ i \in 1..Len(disp.snap)
    /\ disp.send[i] = "posted"
    /\ clients' = IF Raises(outcome) THEN clients
                  ELSE save_client(clients,
                                   [disp.snap[i] EXCEPT !.last_seen = <<ops>>])
    /\ disp' = [disp EXCEPT !.send[i] = outcome]
    /\ UNCHANGED <<relvars, ops, seq, reg, upd, posts, log, group_cache>>

\* append_log(make_log_entry(...)), the end of _send
SendLog(i) ==
    /\ disp.pc = "running"
    /\ i \in 1..Len(disp.snap)
    /\ disp.send[i] \in Outcomes
    /\ log' = Append(log, make_log_entry(disp.snap[i].id, disp.n.event_type,
                                         disp.n, ~Raises(disp.send[i]),
                                         IF Raises(disp.send[i])
                                         THEN <<str_e(disp.send[i])>>
                                         ELSE <<>>))
    /\ disp' = [disp EXCEPT !.send[i] = "logged"]
    /\ UNCHANGED <<relvars, clients, ops, seq, reg, upd, posts, group_cache>>

\* faulty variant: the second gather returns as soon as one delivery has failed
TasksDone_FailFast(d) ==
    \/ \A i \in 1..Len(d.snap) : d.rel[i] = "true" => d.send[i] = "logged"
    \/ \E i \in 1..Len(d.snap) : d.send[i] \in {"non2xx", "timeout"}

\* faulty variant: the second gather returns as soon as one delivery has finished
TasksDone_Any(d) ==
    \/ \A i \in 1..Len(d.snap) : d.rel[i] # "true"
    \/ \E i \in 1..Len(d.snap) : d.rel[i] = "true" /\ d.send[i] = "logged"

\* the second gather returns when every _send task has finished
TasksDone(d) ==
    \A i \in 1..Len(d.snap) : d.rel[i] = "true" => d.send[i] = "logged"

\* dispatch returns
DispatchReturn ==
    /\ disp.pc = "running"
    /\ RelevanceDone(disp)
    /\ TasksDone(disp)
    /\ disp' = [disp EXCEPT !.pc = "done"]
    /\ UNCHANGED <<relvars, clients, ops, seq, reg, upd, posts, log, group_cache>>

Next ==
    \/ \E p \in RegProcs, body \in RegisterBodies : RegisterLookup(p, body)
    \/ \E p \in RegProcs : RegisterSave(p)
    \/ \E id \in 1..(Len(clients) + 1) : unregister_client(id)
    \/ \E id \in 1..(Len(clients) + 1), subs \in RegSubs : UpdateGet(id, subs)
    \/ UpdateSave
    \/ \E payload \in Payloads : receive_webhook(payload, <<>>)
    \/ _process
    \/ send_manual_notification
    \/ \E i \in 1..Len(disp.snap) : RelevanceStep(i)
    \/ \E i \in 1..Len(disp.snap), answer \in FetchAnswers : GroupsFetched(i, answer)
    \/ \E i \in 1..Len(disp.snap) : SendPost(i)
    \/ \E i \in 1..Len(disp.snap), outcome \in Outcomes : SendResponse(i, outcome)
    \/ \E i \in 1..Len(disp.snap) : SendLog(i)
    \/ DispatchReturn

RelIdle ==
    /\ rc = make_client(1, "u1", "A", {"pr"})
    /\ rn = NoNotif
    /\ rg = EmptyGroups
    /\ rout = [result |-> FALSE, calls |-> -1]
    /\ dl = NoDelete
    /\ ev = NoEval
    /\ IdentityIdle

\* requests interleave at their awaits; no webhook secret is configured
Init == RelIdle /\ secret = "" /\ InitServer /\ seq = FALSE
Spec == Init /\ [][Next]_vars

\* each request completes before the next one is received
InitSeq == RelIdle /\ secret = "" /\ InitServer /\ seq = TRUE
SpecSeq == InitSeq /\ [][Next]_vars

-----------------------------------------------------------------------------
(* The webhook pipeline alone: the receiver and the background task, on a   *)
(* registry of two clients, with or without a secret configured.  The event *)
(* loop runs every task that is ready, and every HTTP request carries a     *)
(* timeout, so no step of a background task is postponed for ever.          *)

\* the registry after Alice's and Bob's clients have registered
HookRegistry ==
    <<make_client(1, "u1", "A", {"pr"}), make_client(2, "u2", "B", {"pr"})>>

InitHook ==
    /\ RelIdle
    /\ secret \in Secrets
    /\ clients = HookRegistry
    /\ ops = Len(HookRegistry)
    /\ InitRequests
    /\ seq = FALSE

\* the steps of the background task created by receive_webhook
TaskStep ==
    \/ _process
    \/ \E i \in 1..Len(disp.snap) : RelevanceStep(i)
    \/ \E i \in 1..Len(disp.snap), answer \in FetchAnswers : GroupsFetched(i, answer)
    \/ \E i \in 1..Len(disp.snap) : SendPost(i)
    \/ \E i \in 1..Len(disp.snap), outcome \in Outcomes : SendResponse(i, outcome)
    \/ \E i \in 1..Len(disp.snap) : SendLog(i)
    \/ DispatchReturn

NextHook ==
    \/ \E payload \in HookPayloads : \E signature \in Signatures(payload) :
           receive_webhook(payload, signature)
    \/ _process
    \/ \E i \in 1..Len(disp.snap) : RelevanceStep(i)
    \/ \E i \in 1..Len(disp.snap), answer \in FetchAnswers : GroupsFetched(i, answer)
    \/ \E i \in 1..Len(disp.snap) : SendPost(i)
    \/ \E i \in 1..Len(disp.snap), outcome \in Outcomes : SendResponse(i, outcome)
    \/ \E i \in 1..Len(disp.snap) : SendLog(i)
    \/ DispatchReturn

SpecHook == InitHook /\ [][NextHook]_vars /\ WF_vars(TaskStep)

-----------------------------------------------------------------------------
(* POST /notifications/send alone: one request on each registry of up to    *)
(* two clients, active or soft-deleted, with any subscriptions.             *)

\* faulty variant: the response counts the deliveries that succeeded
dispatched_to_Delivered ==
    Cardinality({k \in (disp.log0 + 1)..Len(log) : log[k].success})

\* dispatched_to of the response: 0 without targets, else len(targets)
dispatched_to ==
    Cardinality({i \in 1..Len(disp.rel) : disp.rel[i] = "true"})

ManualRegistries ==
    {<<>>}
    \cup {<<[make_client(1, "u1", "A", s1) EXCEPT !.active = a1],
            [make_client(2, "u2", uid, s2) EXCEPT !.active = a2]>> :
             a1 \in BOOLEAN, a2 \in BOOLEAN, uid \in UIDS,
             s1 \in SUBS, s2 \in SUBS}

InitManual ==
    /\ RelIdle
    /\ secret = ""
    /\ clients \in ManualRegistries
    /\ ops = MaxOps - 1
    /\ InitRequests
    /\ seq = FALSE

NextManual ==
    \/ send_manual_notification
    \/ \E i \in 1..Len(disp.snap) : SendPost(i)
    \/ \E i \in 1..Len(disp.snap), outcome \in Outcomes : SendResponse(i, outcome)
    \/ \E i \in 1..Len(disp.snap) : SendLog(i)
    \/ DispatchReturn

SpecManual == InitManual /\ [][NextManual]_vars

-----------------------------------------------------------------------------
(* DELETE /clients/{id} applied twice to one registry *)

\* 200 {"status": "unregistered"} when delete_client found the id, else 404
unregister_response(found) == IF found THEN "unregistered" ELSE "404"

\* registries of up to two records, active or soft-deleted
DelRegistries ==
    {<<>>}
    \cup {<<[make_client(1, "u1", "A", {"pr"}) EXCEPT !.active = a1]>> :
             a1 \in BOOLEAN}
    \cup {<<[make_client(1, "u1", "A", {"pr"}) EXCEPT !.active = a1],
            [make_client(2, "u2", uid, subs) EXCEPT !.active = a2]>> :
             a1 \in BOOLEAN, a2 \in BOOLEAN, uid \in UIDS, subs \in RegSubs}

InitDel ==
    /\ rc = make_client(1, "u1", "A", {"pr"})
    /\ rn = NoNotif
    /\ rg = EmptyGroups
    /\ rout = [result |-> FALSE, calls |-> -1]
    /\ ev = NoEval
    /\ IdentityIdle
    /\ secret = ""
    /\ clients \in DelRegistries
    /\ \E id \in 1..(Len(clients) + 1) :
           dl = [NoDelete EXCEPT !.id = id, !.before = clients]
    /\ ops = 0
    /\ InitRequests
    /\ seq = TRUE

\* unregister_client(dl.id), for the first and then for the second time
EvalUnregister ==
    /\ Len(dl.status) < 2
    /\ clients' = delete_client(clients, dl.id)
    /\ dl' = [dl EXCEPT
                 !.status = Append(@, unregister_response(
                                          delete_client_found(clients, dl.id))),
                 !.once = IF @ = <<>> THEN <<delete_client(clients, dl.id)>>
                          ELSE @]
    /\ UNCHANGED <<rc, rn, rg, rout, ev, secret, idvars, ops, seq, reg, upd, disp,
                   posts, log, group_cache>>

NextDel == EvalUnregister

SpecDel == InitDel /\ [][NextDel]_vars

-----------------------------------------------------------------------------
(* POST /clients/register applied twice with one body, to a registry that   *)
(* a previous registration with that body, soft-deletes and deliveries have *)
(* left behind.  Records carry all nine fields here.                        *)

\* nothing but the operation under evaluation is going on
EvalIdle ==
    /\ rc = make_client(1, "u1", "A", {"pr"})
    /\ rn = NoNotif
    /\ rg = EmptyGroups
    /\ rout = [result |-> FALSE, calls |-> -1]
    /\ dl = NoDelete
    /\ IdentityIdle
    /\ secret = ""
    /\ InitRequests
    /\ seq = TRUE

\* ClientRegistration: name, callback_url, ado_user_id, display_name,
\* subscriptions
FullBodies ==
    [name : {"pc", "laptop"}, callback_url : {"u1"}, ado_user_id : UIDS,
     display_name : {"Alice"}, subscriptions : RegSubs]

\* make_client with all its fields: registered_at is the time of the call
make_client_record(id, body, now) ==
    make_client(id, body.callback_url, body.ado_user_id, body.subscriptions)
    @@ [name |-> body.name, display_name |-> body.display_name,
        registered_at |-> now]

\* register_client: the registry after the request
register_client(data, body, now) ==
    LET existing == get_client_by_callback(data, body.callback_url)
    IN  IF existing # <<>>
        THEN save_client(data, existing_update(existing[1], body))
        ELSE save_client(data, make_client_record(Len(data) + 1, body, now))

\* which branch ran: "Updated client registration" or "Registered new client"
register_status(data, body) ==
    IF get_client_by_callback(data, body.callback_url) # <<>>
    THEN "updated" ELSE "created"

\* another client, registered at time 2 on callback u2
OtherClient ==
    make_client_record(2, [name |-> "pc", callback_url |-> "u2",
                           ado_user_id |-> "B", display_name |-> "Bob",
                           subscriptions |-> {"pr"}], 2)

\* the registry some time after register(body) at time 1: the record may have
\* been soft-deleted and may have been delivered to; or the body was never
\* registered
RegRegistries(body) ==
    {<<>>}
    \cup {<<[make_client_record(1, body, 1) EXCEPT
                !.active = a, !.last_seen = ls]>> \o rest :
             a \in BOOLEAN, ls \in {<<>>, <<2>>},
             rest \in {<<>>, <<OtherClient>>}}

InitReg ==
    /\ EvalIdle
    /\ \E body \in FullBodies :
           /\ clients \in RegRegistries(body)
           /\ ev = [op |-> "register", body |-> body, before |-> clients,
                    status |-> <<>>]
    /\ ops = 3

\* register_client(ev.body), for the first and then for the second time
EvalRegister ==
    /\ ev.op = "register"
    /\ Len(ev.status) < 2
    /\ ops' = ops + 1
    /\ clients' = register_client(clients, ev.body, ops')
    /\ ev' = [ev EXCEPT
                 !.status = Append(@, register_status(clients, ev.body))]
    /\ UNCHANGED <<rc, rn, rg, rout, dl, secret, idvars, seq, reg, upd, disp, posts,
                   log, group_cache>>

NextReg == EvalRegister

SpecReg == InitReg /\ [][NextReg]_vars

-----------------------------------------------------------------------------
(* The notification log: append_log with the rotating handler, lines that   *)
(* are not entries, and get_logs called once on what has been written.      *)
(* ev.files lists the files that exist, notifications.log first, then .1,   *)
(* .2, ...; each file is the sequence of its lines, oldest first.           *)

\* a line that is empty after strip()
BlankLine == [text |-> ""]
\* a line json.loads rejects, such as a line cut short
MalformedLine == [text |-> "not valid json"]

LogEventTypes == {"pr", "manual"}
LogClientIds == {"c1", "c2"}

\* make_log_entry serialised on one line; appended is its rank among the
\* lines written, by which the order of append is told
log_line(client_id, event_type, rank) ==
    make_log_entry(client_id, event_type, <<>>, TRUE, <<>>)
    @@ [appended |-> rank]

\* RotatingFileHandler.shouldRollover
shouldRollover(files) == Len(files[1]) + 1 >= LOG_MAX_BYTES

\* faulty variant: a rollover keeps every rolled file
doRollover_KeepAll(files) == <<<<>>>> \o files

\* RotatingFileHandler.doRollover: .i becomes .i+1, the active file becomes
\* .1, what was .LOG_BACKUP_COUNT is removed, a new active file is opened
doRollover(files) ==
    IF LOG_BACKUP_COUNT > 0
    THEN <<<<>>>> \o SubSeq(files, 1,
                            IF Len(files) < LOG_BACKUP_COUNT
                            THEN Len(files) ELSE LOG_BACKUP_COUNT)
    ELSE files

\* handler.emit: roll over if needed, then write the line to the active file
emit(files, line) ==
    LET fs == IF shouldRollover(files) THEN doRollover(files) ELSE files
    IN  [fs EXCEPT ![1] = Append(@, line)]

\* faulty variant: the rolled files are read oldest first
_log_files_newest_first_Reversed(files) ==
    [i \in 1..Len(files) |-> files[Len(files) + 1 - i]]

\* the paths that exist among notifications.log, .1, ..., .LOG_BACKUP_COUNT
_log_files_newest_first(files) ==
    SubSeq(files, 1, IF Len(files) < LOG_BACKUP_COUNT + 1
                     THEN Len(files) ELSE LOG_BACKUP_COUNT + 1)

\* a filter is << >> for None, else <<value>>; "" is falsy
FilterOn(f) == f # <<>> /\ f[1] # ""

\* for line in reversed(lines), from line k down: blank and malformed lines
\* and entries that fail a filter are skipped; returns as soon as
\* len(entries) >= limit
RECURSIVE scan_lines(_, _, _, _, _, _)
scan_lines(lines, k, entries, limit, event_type, client_id) ==
    IF k = 0 THEN [entries |-> entries, returned |-> FALSE]
    ELSE IF \/ lines[k] = BlankLine
            \/ lines[k] = MalformedLine
            \/ FilterOn(event_type) /\ lines[k].event_type # event_type[1]
            \/ FilterOn(client_id) /\ lines[k].client_id # client_id[1]
         THEN scan_lines(lines, k - 1, entries, limit, event_type, client_id)
         ELSE LET appended == Append(entries, lines[k])
              IN  IF Len(appended) >= limit
                  THEN [entries |-> appended, returned |-> TRUE]
                  ELSE scan_lines(lines, k - 1, appended, limit, event_type,
                                  client_id)

\* for path in _log_files_newest_first(), from file f on
RECURSIVE scan_files(_, _, _, _, _, _)
scan_files(paths, f, entries, limit, event_type, client_id) ==
    IF f > Len(paths) THEN entries
    ELSE LET r == scan_lines(paths[f], Len(paths[f]), entries, limit,
                             event_type, client_id)
         IN  IF r.returned THEN r.entries
             ELSE scan_files(paths, f + 1, r.entries, limit, event_type,
                             client_id)

get_logs(files, limit, event_type, client_id) ==
    scan_files(_log_files_newest_first(files), 1, <<>>, limit, event_type,
               client_id)

\* init_db has touched notifications.log; get_logs has not been called
InitLog ==
    /\ EvalIdle
    /\ clients = <<>>
    /\ ops = 0
    /\ ev = [op |-> "logs", files |-> <<<<>>>>, written |-> 0,
             limit |-> 0, event_type |-> <<>>, client_id |-> <<>>,
             out |-> <<>>]

\* append_log(make_log_entry(client_id, event_type, ...))
append_log(client_id, event_type) ==
    /\ ev.op = "logs" /\ ev.out = <<>>
    /\ ev.written < MaxLogLines
    /\ ev' = [ev EXCEPT
                 !.files = emit(@, log_line(client_id, event_type,
                                           ev.written + 1)),
                 !.written = @ + 1]
    /\ UNCHANGED <<rc, rn, rg, rout, dl, secret, idvars, srvvars>>

\* a line that is not an entry gets into the active file, written by a
\* process that was cut short or by another program
WriteRaw(line) ==
    /\ ev.op = "logs" /\ ev.out = <<>>
    /\ ev.written < MaxLogLines
    /\ ev' = [ev EXCEPT !.files[1] = Append(@, line), !.written = @ + 1]
    /\ UNCHANGED <<rc, rn, rg, rout, dl, secret, idvars, srvvars>>

\* get_logs(limit, event_type, client_id); out is <<the list returned>>
EvalGetLogs(limit, event_type, client_id) ==
    /\ ev.op = "logs" /\ ev.out = <<>>
    /\ ev' = [ev EXCEPT
                 !.limit = limit, !.event_type = event_type,
                 !.client_id = client_id,
                 !.out = <<get_logs(ev.files, limit, event_type, client_id)>>]
    /\ UNCHANGED <<rc, rn, rg, rout, dl, secret, idvars, srvvars>>

NextLog ==
    \/ \E client_id \in LogClientIds, event_type \in LogEventTypes :
           append_log(client_id, event_type)
    \/ \E line \in {BlankLine, MalformedLine} : WriteRaw(line)
    \/ \E limit \in 0..MaxLimit, event_type \in {<<>>, <<"">>, <<"pr">>},
          client_id \in {<<>>, <<"c1">>} :
           EvalGetLogs(limit, event_type, client_id)

SpecLog == InitLog /\ [][NextLog]_vars

-----------------------------------------------------------------------------
(* ado_client alone: concurrent calls of get_user_avatar_b64 and            *)
(* get_user_groups.  A call runs up to the request it awaits; the answer of  *)
(* ADO resumes it.  The two functions share no state, so a behaviour calls   *)
(* one of them.                                                             *)

AdoIds == {"A", ""}
AdoGroupIds == <<"G1", "G2", "G3">>

\* identity.get("memberOf", []) of a 200 answer
MemberOfLists == {<<>>, SubSeq(AdoGroupIds, 1, batch_size + 1)}

\* what ADO answers to the membership request; "error" is any exception
\* (timeout, connection error, a body that is not JSON)
MembershipAnswers ==
    {[status |-> "200", memberOf |-> m] : m \in MemberOfLists}
    \cup {[status |-> st, memberOf |-> <<>>] : st \in {"non200", "error"}}

\* items of resp.json()["value"]; << >> is a name that is missing or empty
ItemProvider == [providerDisplayName |-> N_BackendTeam, customDisplayName |-> <<>>]
ItemCustom == [providerDisplayName |-> <<>>, customDisplayName |-> N_FrontendTeam]
ItemNameless == [providerDisplayName |-> <<>>, customDisplayName |-> <<>>]

\* what ADO answers to a name-resolution request
BatchAnswers ==
    {[status |-> "200", value |-> v] :
        v \in {<<ItemProvider>>, <<ItemNameless, ItemCustom>>}}
    \cup {[status |-> st, value |-> <<>>] : st \in {"non200", "error"}}

\* what ADO answers to the avatar request; content_type is << >> when the
\* header is missing
AvatarAnswers ==
    {[status |-> "200", content_type |-> ct, content |-> "png-bytes"] :
        ct \in {<<>>, <<"image/jpeg">>}}
    \cup {[status |-> st, content_type |-> <<>>, content |-> ""] :
             st \in {"non200", "error"}}

\* f"data:{content_type};base64,{b64}", content-type defaulting to image/png
data_uri(answer) ==
    [content_type |-> IF answer.content_type = <<>> THEN "image/png"
                      ELSE answer.content_type[1],
     base64 |-> <<"b64encode", answer.content>>]

\* item.get("providerDisplayName") or item.get("customDisplayName", "")
item_name(item) ==
    IF item.providerDisplayName # <<>> THEN item.providerDisplayName
    ELSE item.customDisplayName

\* the names the loop over resp.json()["value"] appends
RECURSIVE value_names(_)
value_names(value) ==
    IF value = <<>> THEN <<>>
    ELSE IF item_name(Head(value)) # <<>>
         THEN <<item_name(Head(value))>> \o value_names(Tail(value))
         ELSE value_names(Tail(value))

\* faulty variant: a failed batch discards the names collected so far
except_Exception_Discard(groups_data) == [groups_data EXCEPT !.names = <<>>]

\* except Exception: the failure is logged; groups_data is what it was
except_Exception(groups_data) == groups_data

\* a call that has just been made: kind, argument, where it waits, the
\* groups_data it builds, the index i of its batch, the requests it has
\* sent, the answers it has received, the calls that had returned when it
\* started, and <<the value it returned>>
NewCall(kind, id) ==
    [kind |-> kind, id |-> id, pc |-> "started", groups_data |-> EmptyGroups,
     i |-> 0, sent |-> 0, answers |-> <<>>,
     after |-> {j \in 1..Len(calls) : calls[j].pc = "returned"},
     result |-> <<>>]

Returned(call, value) == [call EXCEPT !.pc = "returned", !.result = <<value>>]

\* a behaviour calls one function of the two
SameKind(kind) == IF calls = <<>> THEN TRUE ELSE calls[1].kind = kind

\* not settings.ADO_PAT or not settings.ADO_ORGANIZATION_URL or not identity_id
NotAvailable(id) == ~ado_configured \/ id = ""

\* no definition of this specification touches the rest of the server
AdoFrame ==
    UNCHANGED <<rc, rn, rg, rout, dl, ev, secret, ado_configured, clients,
                ops, seq, reg, upd, disp, posts, log>>

\* get_user_avatar_b64(identity_id) up to its return or its request
AvatarCall(id) ==
    /\ Len(calls) < MaxCalls
    /\ SameKind("avatar")
    /\ LET call == NewCall("avatar", id)
       IN  calls' = Append(calls,
               IF NotAvailable(id) THEN Returned(call, <<>>)
               ELSE IF avatar_cache[id] # NotCached
               THEN Returned(call, avatar_cache[id][1])
               ELSE [call EXCEPT !.pc = "avatar", !.sent = 1])
    /\ UNCHANGED <<avatar_cache, group_cache>>
    /\ AdoFrame

\* the avatar request is answered: a 200 is cached as a data URI, anything
\* else as None
AvatarResponse(k, answer) ==
    /\ k \in 1..Len(calls)
    /\ calls[k].pc = "avatar"
    /\ LET result == IF answer.status = "200" THEN <<data_uri(answer)>>
                     ELSE <<>>
       IN  /\ avatar_cache' = [avatar_cache EXCEPT ![calls[k].id] = <<result>>]
           /\ calls' = [calls EXCEPT
                           ![k] = Returned([@ EXCEPT !.answers = <<answer>>],
                                           result)]
    /\ UNCHANGED group_cache
    /\ AdoFrame

\* get_user_groups(identity_id) up to its return or its first request
GroupsCall(id) ==
    /\ Len(calls) < MaxCalls
    /\ SameKind("groups")
    /\ LET call == NewCall("groups", id)
       IN  calls' = Append(calls,
               IF NotAvailable(id) THEN Returned(call, EmptyGroups)
               ELSE IF group_cache[id] # NotCached
               THEN Returned(call, group_cache[id][1])
               ELSE [call EXCEPT !.pc = "membership", !.sent = 1])
    /\ UNCHANGED <<avatar_cache, group_cache>>
    /\ AdoFrame

\* _group_cache[identity_id] = groups_data; return groups_data
CacheAndReturn(k, call, groups_data) ==
    /\ group_cache' = [group_cache EXCEPT ![call.id] = <<groups_data>>]
    /\ calls' = [calls EXCEPT ![k] = Returned(call, groups_data)]

\* step 1 is answered: non-200 and failures end the call with empty groups;
\* a 200 sets ids and, if there are any, sends the request of the first batch
MembershipResponse(k, answer) ==
    /\ k \in 1..Len(calls)
    /\ calls[k].pc = "membership"
    /\ LET call == [calls[k] EXCEPT !.answers = <<answer>>]
           with_ids == [call.groups_data EXCEPT !.ids = answer.memberOf]
       IN  IF answer.status = "non200"
           THEN CacheAndReturn(k, call, call.groups_data)
           ELSE IF answer.status = "error"
           THEN CacheAndReturn(k, call, except_Exception(call.groups_data))
           ELSE IF answer.memberOf = <<>>
           THEN CacheAndReturn(k, call, with_ids)
           ELSE /\ calls' = [calls EXCEPT
                                ![k] = [call EXCEPT !.pc = "batch",
                                                    !.groups_data = with_ids,
                                                    !.i = 0, !.sent = @ + 1]]
                /\ UNCHANGED group_cache
    /\ UNCHANGED avatar_cache
    /\ AdoFrame

\* the request for member_of_ids[i : i + batch_size] is answered: a 200
\* appends its names, a non-200 appends nothing, a failure leaves the loop;
\* after the last batch the result is cached and returned
BatchResponse(k, answer) ==
    /\ k \in 1..Len(calls)
    /\ calls[k].pc = "batch"
    /\ LET call == [calls[k] EXCEPT !.answers = Append(@, answer)]
           named == [call.groups_data EXCEPT
                        !.names = @ \o value_names(answer.value)]
           next_i == call.i + batch_size
       IN  IF answer.status = "error"
           THEN CacheAndReturn(k, call, except_Exception(call.groups_data))
           ELSE IF next_i < Len(call.groups_data.ids)
           THEN /\ calls' = [calls EXCEPT
                                ![k] = [call EXCEPT !.groups_data = named,
                                                    !.i = next_i,
                                                    !.sent = @ + 1]]
                /\ UNCHANGED group_cache
           ELSE CacheAndReturn(k, call, named)
    /\ UNCHANGED avatar_cache
    /\ AdoFrame

InitAdo ==
    /\ rc = make_client(1, "u1", "A", {"pr"})
    /\ rn = NoNotif
    /\ rg = EmptyGroups
    /\ rout = [result |-> FALSE, calls |-> -1]
    /\ dl = NoDelete
    /\ ev = NoEval
    /\ secret = ""
    /\ ado_configured \in BOOLEAN
    /\ avatar_cache = [u \in UIDS |-> NotCached]
    /\ calls = <<>>
    /\ InitServer
    /\ seq = FALSE

NextAdo ==
    \/ \E id \in AdoIds : AvatarCall(id)
    \/ \E k \in 1..Len(calls), answer \in AvatarAnswers : AvatarResponse(k, answer)
    \/ \E id \in AdoIds : GroupsCall(id)
    \/ \E k \in 1..Len(calls), answer \in MembershipAnswers :
           MembershipResponse(k, answer)
    \/ \E k \in 1..Len(calls), answer \in BatchAnswers : BatchResponse(k, answer)

SpecAdo == InitAdo /\ [][NextAdo]_vars

-----------------------------------------------------------------------------
(* The mentions builder on enumerated inputs *)

\* identity dicts: with an id, with a uniqueName only, with or without a
\* displayName, and the empty dict
MentionIdentities ==
    {I_Alice, I_Bob, Identity("A", <<>>), NoIdentity,
     [id |-> "", uniqueName |-> "B", displayName |-> N_Bob],
     [id |-> NoneVal, uniqueName |-> "U", displayName |-> <<>>]}

InitMentions ==
    /\ EvalIdle
    /\ clients = <<>>
    /\ ops = 0
    /\ \E identity_dicts \in SeqsUpTo(MentionIdentities, MaxIdentities),
          actor_id \in {NoneVal, "A", "U"} :
           ev = [op |-> "mentions", identity_dicts |-> identity_dicts,
                 actor_id |-> actor_id, out |-> <<>>]

\* _mentions(*identity_dicts, actor_id=actor_id); out is <<the dict returned>>
EvalMentions ==
    /\ ev.op = "mentions" /\ ev.out = <<>>
    /\ ev' = [ev EXCEPT !.out = <<_mentions(ev.identity_dicts, ev.actor_id)>>]
    /\ UNCHANGED <<rc, rn, rg, rout, dl, secret, idvars, srvvars>>

NextMentions == EvalMentions

SpecMentions == InitMentions /\ [][NextMentions]_vars

-----------------------------------------------------------------------------
(* The formatter on enumerated payloads of every handled event type *)

\* an identity known by its uniqueName only
I_Carol == [id |-> NoneVal, uniqueName |-> "C", displayName |-> <<>>]

\* the values of resource["result"] and of
\* resource["environment"]["status"]
BuildResults ==
    {R_succeeded, R_Succeeded, R_failed, R_canceled, S_cancelled,
     R_partiallySucceeded, R_rejected, R_stopped}

FormatPayloads ==
    [eventType : PR_EVENTS, createdBy : {I_Alice, I_Bob, NoIdentity},
     closedBy : {<<>>, <<I_Alice>>},
     reviewers : SeqsUpTo({I_Alice, I_Bob, I_Team, I_Carol}, MaxReviewers),
     commentAuthor : {I_Alice, I_Bob}]
    \cup
    [eventType : WORKITEM_EVENTS,
     assignedTo : {I_Alice, I_Bob, I_Carol, NoIdentity, PlainText("Alice")},
     changedBy : {I_Alice, I_Bob, NoIdentity, PlainText("Alice")}]
    \cup
    [eventType : PIPELINE_EVENTS,
     requestedFor : {I_Alice, I_Carol, NoIdentity},
     createdBy : {I_Alice, NoIdentity}, modifiedBy : {I_Bob}]
    \cup
    [eventType : PR_EVENTS, createdBy : {I_Alice}, closedBy : {<<>>},
     reviewers : {<<I_Bob>>}, commentAuthor : {I_Bob},
     url : {<<>>, U_pr_api, U_pr_web}, remoteUrl : {<<>>, U_pr_remote},
     webHref : {<<>>, U_pr_web}]
    \cup
    [eventType : WORKITEM_EVENTS, assignedTo : {I_Alice}, changedBy : {I_Bob},
     workItemType : {T_Bug, T_bug, T_WorkItem}, url : {<<>>, U_wi_api}]
    \cup
    [eventType : {"build.complete"}, requestedFor : {I_Alice},
     result : BuildResults, webHref : {<<>>, U_build_web},
     url : {<<>>, <<"_apis", "build", "Builds", "7">>}]
    \cup
    [eventType : {"ms.vss-release.deployment-completed-event"},
     requestedFor : {I_Alice}, envStatus : BuildResults,
     webHref : {<<>>, U_build_web}]
    \cup
    [eventType : PR_EVENTS, createdBy : {I_Alice, PlainText("Alice"), JsonNull},
     closedBy : {<<>>, <<JsonNull>>},
     reviewers : {<<>>, <<PlainText("Bob")>>, <<JsonNull, I_Bob>>},
     commentAuthor : {I_Bob, JsonNull}]
    \cup
    [eventType : WORKITEM_EVENTS, assignedTo : {I_Alice, JsonNull},
     changedBy : {I_Bob, JsonNull}, workItemType : {T_Bug, NotAString},
     url : {<<>>, NotAString}]
    \cup
    [eventType : PIPELINE_EVENTS,
     requestedFor : {I_Alice, JsonNull, PlainText("Alice")},
     createdBy : {I_Alice, JsonNull}, modifiedBy : {I_Bob, PlainText("Bob")},
     result : {R_failed, NotAString}, envStatus : {R_rejected, NotAString}]
    \cup
    [eventType : {"weird.event"}, createdBy : {I_Alice}]

InitFormat ==
    /\ EvalIdle
    /\ clients = <<>>
    /\ ops = 0
    /\ \E payload \in FormatPayloads :
           ev = [op |-> "format", payload |-> payload, out |-> <<>>]

\* format_webhook(payload["eventType"], payload); out is <<what it returned>>
EvalFormat ==
    /\ ev.op = "format" /\ ev.out = <<>>
    /\ ev' = [ev EXCEPT
                 !.out = <<format_webhook(ev.payload.eventType, ev.payload)>>]
    /\ UNCHANGED <<rc, rn, rg, rout, dl, secret, idvars, srvvars>>

NextFormat == EvalFormat

SpecFormat == InitFormat /\ [][NextFormat]_vars

-----------------------------------------------------------------------------
(* The relevance predicate on enumerated inputs *)

NoResult == [result |-> FALSE, calls |-> -1]

RelClients ==
    {make_client(1, "u1", uid, subs) : uid \in UIDS \cup {""}, subs \in SUBS}

\* manual notifications carry no actor and no mentions (notifications.send)
RelNotifs ==
    {[event_type |-> "manual", actor_id |-> NoneVal,
      mentions |-> [user_ids |-> <<>>, names |-> <<>>]]}
    \cup
    [event_type : {"pr"}, actor_id : UIDS \cup {NoneVal},
     mentions : [user_ids : SeqsUpTo(UIDS \cup GIDS, MaxUserIds),
                 names : SeqsUpTo(MentionNames, MaxNames)]]

\* get_user_groups answers "no groups" for a falsy identity id
InitRel ==
    /\ rc \in RelClients
    /\ rn \in RelNotifs
    /\ rg \in GroupAnswers
    /\ (rc.ado_user_id = "" => rg = EmptyGroups)
    /\ rout = NoResult
    /\ dl = NoDelete /\ ev = NoEval /\ IdentityIdle /\ secret = ""
    /\ InitServer /\ seq = FALSE

EvalRelevant ==
    /\ rout = NoResult
    /\ rout' = _client_is_relevant(rc, rn, rg)
    /\ UNCHANGED <<rc, rn, rg, dl, ev, secret, idvars>>
    /\ UNCHANGED srvvars

NextRel == EvalRelevant

SpecRel == InitRel /\ [][NextRel]_vars

Evaluated == rout # NoResult

-----------------------------------------------------------------------------
(* Claims about the relevance predicate, stated on the raw inputs *)

\* the subscription gate, the self-block and the mention cases as the
\* specification words them
P_Gate == rn.event_type \in rc.subscriptions \/ "all" \in rc.subscriptions
P_Manual == rn.event_type = "manual"
P_IsActor == rn.actor_id = rc.ado_user_id
P_Direct == \E i \in 1..Len(rn.mentions.user_ids) :
                rn.mentions.user_ids[i] = rc.ado_user_id
P_SelfBlocked == P_IsActor /\ ~P_Direct
P_Broadcast == rn.mentions.user_ids = <<>> /\ rn.mentions.names = <<>>
P_GroupNameMatch ==
    \E i \in 1..Len(rg.names), j \in 1..Len(rn.mentions.names) :
        Lower(rg.names[i]) = Lower(rn.mentions.names[j])
P_GroupIdMatch ==
    \E i \in 1..Len(rg.ids), j \in 1..Len(rn.mentions.user_ids) :
        rg.ids[i] = rn.mentions.user_ids[j]

\* C5: is_relevant is true iff the subscription gate passes and (the event
\* is manual, or the client is not self-blocked and the notification is a
\* broadcast, a direct mention or a mention of one of the client's groups).
C5_RelevantIff ==
    Evaluated =>
        (rout.result <=>
            (P_Gate /\ (P_Manual \/ (~P_SelfBlocked /\
                (P_Broadcast \/ P_Direct \/ P_GroupNameMatch)))))

C8_GroupNameMatch ==
    (Evaluated /\ P_Gate /\ ~P_Manual /\ Truthy(rc.ado_user_id)
        /\ ~P_IsActor /\ ~P_Direct /\ rn.mentions.names # <<>>)
    => (rout.result <=> P_GroupNameMatch)

\* C9: for a subscribed client whose id is not in a non-empty
\* mentions.user_ids, the groups are fetched exactly once, also when
\* mentions.names is empty, and a group id listed in mentions.user_ids makes
\* the client relevant.
C9_GroupIdMatch ==
    (Evaluated /\ P_Gate /\ ~P_Manual /\ Truthy(rc.ado_user_id)
        /\ ~P_IsActor /\ ~P_Direct /\ rn.mentions.user_ids # <<>>)
    => (rout.calls = 1 /\ (P_GroupIdMatch => rout.result))

\* C10: the group lookup is lazy: no get_user_groups call when the gate
\* fails, the event is manual, the client is suppressed as actor, the
\* notification is a broadcast or the client is directly mentioned; at most
\* one call otherwise.
C10_LazyGroups ==
    Evaluated =>
        /\ rout.calls \in {0, 1}
        /\ (~P_Gate \/ P_Manual \/ P_SelfBlocked \/ P_Broadcast \/ P_Direct)
               => rout.calls = 0

\* a directly mentioned client with group names also mentioned: no lookup
C10_Witness ==
    /\ Evaluated /\ P_Gate /\ P_Direct /\ rn.mentions.names # <<>>
    /\ rout.result /\ rout.calls = 0

-----------------------------------------------------------------------------
(* Claims about the registry and the dispatcher *)

RecordsWith(callback_url) ==
    {i \in 1..Len(clients) : clients[i].callback_url = callback_url}

\* C1: when each request completes before the next starts, the registry
\* holds at most one active record per callback_url.
C1_OneActivePerCallback ==
    \A i, j \in 1..Len(clients) :
        (clients[i].active /\ clients[j].active
            /\ clients[i].callback_url = clients[j].callback_url) => i = j

\* a delivered-to client has re-registered: its record was updated in place
C1_Witness ==
    /\ seq
    /\ \E p \in RegProcs : reg[p].pc = "updated"
    /\ Len(clients) = 1 /\ clients[1].active /\ clients[1].last_seen # <<>>

ReturnedRelevant(i) ==
    /\ disp.rel[i] \in {"true", "false"}
    /\ _client_is_relevant(disp.snap[i], disp.n, disp.grp[i]).result

\* C3: a dispatch POSTs exactly once to each loaded client that is active
\* and relevant, and never to any other client.
C3_PostedIffActiveRelevant ==
    \A i \in 1..Len(disp.snap) :
        /\ posts[i] <= 1
        /\ posts[i] = 1 => (disp.snap[i].active /\ ReturnedRelevant(i))
        /\ (disp.pc = "done" /\ disp.snap[i].active /\ ReturnedRelevant(i))
               => posts[i] = 1

\* one loaded client was POSTed, another active one was not relevant
C3_Witness ==
    /\ disp.pc = "done"
    /\ \E i, j \in 1..Len(disp.snap) :
           /\ posts[i] = 1
           /\ posts[j] = 0 /\ disp.snap[j].active /\ disp.rel[j] = "false"

\* the log entries this dispatch appended for loaded record i
EntriesFor(i) ==
    {k \in (disp.log0 + 1)..Len(log) : log[k].client_id = disp.snap[i].id}

\* C4: when dispatch returns, each POSTed client has exactly one log entry
\* of this dispatch, no other client has one, and no delivery is pending.
C4_OneLogPerPosted ==
    disp.pc = "done" =>
        \A i \in 1..Len(disp.snap) :
            /\ Cardinality(EntriesFor(i)) = posts[i]
            /\ disp.send[i] \in {"none", "logged"}
            /\ (disp.send[i] = "none") = (posts[i] = 0)

\* a dispatch returned after one delivery succeeded and another failed
C4_Witness ==
    /\ disp.pc = "done"
    /\ \E i, j \in 1..Len(disp.snap) :
           /\ posts[i] = 1 /\ posts[j] = 1
           /\ \E k \in EntriesFor(i) : log[k].success
           /\ \E k \in EntriesFor(j) : ~log[k].success

\* the webhook formatted and dispatched is a PR merge whose author is also
\* the merger
MergedByAuthor ==
    /\ disp.pc \in {"running", "done"}
    /\ disp.src.eventType = "git.pullrequest.merged"
    /\ disp.src.closedBy = <<disp.src.createdBy>>

-----------------------------------------------------------------------------
(* Claims about failing lookups and failing deliveries *)

\* C11: a group lookup that failed leaves the client without group names,
\* and the group branch of is_relevant then answers false.
C11_FailedLookupNoMatch ==
    (Evaluated /\ rout.calls = 1 /\ rg.names = <<>>) => ~rout.result

\* the delivery of this dispatch to loaded record j failed
DeliveryFailed(j) ==
    \/ disp.send[j] \in {"non2xx", "timeout"}
    \/ \E k \in EntriesFor(j) : ~log[k].success

\* C12: when the delivery to one client of a dispatch failed, the dispatch
\* still returns only after that client has its log entry and every other
\* active and relevant client has been POSTed once and has its own entry.
C12_FailureIsolated ==
    disp.pc = "done" =>
        \A j \in 1..Len(disp.snap) :
            DeliveryFailed(j) =>
                /\ Cardinality(EntriesFor(j)) = 1
                /\ \A i \in 1..Len(disp.snap) \ {j} :
                       (disp.snap[i].active /\ ReturnedRelevant(i))
                       => (posts[i] = 1 /\ Cardinality(EntriesFor(i)) = 1)

\* one delivery timed out, another of the same dispatch succeeded and its
\* last_seen was saved
C12_Witness ==
    /\ disp.pc = "done"
    /\ \E i, j \in 1..Len(disp.snap) :
           /\ \E k \in EntriesFor(j) : log[k].error = <<"">>
           /\ \E k \in EntriesFor(i) : log[k].success
           /\ clients[disp.snap[i].id].last_seen # <<>>

\* C13: the step in which a delivery fails, and the step that logs the
\* failure, leave every stored client record as it was, and no client is
\* POSTed a second time by the dispatch.
C13_FailureLeavesRecord ==
    [][/\ \A i \in 1..Len(disp.snap) :
              \/ /\ disp.send[i] = "posted"
                 /\ disp'.send[i] \in {"non2xx", "timeout"}
              \/ /\ disp.send[i] \in {"non2xx", "timeout"}
                 /\ disp'.send[i] = "logged"
              => clients' = clients
       /\ \A i \in 1..Len(posts') : posts'[i] <= 1]_vars

\* a dispatch returned after a failed delivery: one POST, one failure entry,
\* and the stored record is the one the dispatch had loaded, never seen
C13_Witness ==
    /\ disp.pc = "done"
    /\ \E i \in 1..Len(disp.snap) :
           /\ posts[i] = 1
           /\ \E k \in EntriesFor(i) : ~log[k].success
           /\ clients[disp.snap[i].id] = disp.snap[i]
           /\ clients[disp.snap[i].id].last_seen = <<>>

\* C14: the entry logged for a delivery has success=true and error=null
\* exactly when the callback answered 2xx; otherwise it has success=false
\* and a non-empty error string.
C14_LogEntryOutcome ==
    [][\A i \in 1..Len(disp.snap) :
           (disp.send[i] \in {"2xx", "non2xx", "timeout"}
               /\ disp'.send[i] = "logged")
           => /\ Len(log') = Len(log) + 1
              /\ log'[Len(log')].success <=> (disp.send[i] = "2xx")
              /\ log'[Len(log')].success => log'[Len(log')].error = <<>>
              /\ ~log'[Len(log')].success =>
                     /\ log'[Len(log')].error # <<>>
                     /\ log'[Len(log')].error[1] # ""]_vars

\* C15: the save of a successful delivery changes nothing but last_seen in
\* the stored record: what another request committed to that record since
\* the dispatch loaded the registry is still there.
C15_SaveKeepsCommitted ==
    [][\A i \in 1..Len(disp.snap) :
           (disp.send[i] = "posted" /\ disp'.send[i] = "2xx")
           => clients' = [clients EXCEPT ![disp.snap[i].id].last_seen =
                              clients'[disp.snap[i].id].last_seen]]_vars

-----------------------------------------------------------------------------
(* Claims about the webhook receiver and its background task *)

\* the receiver has answered the request in disp and its background task,
\* if any, has not started
P_Answered == disp.pc \in {"401", "400", "scheduled"}

\* the request passes verification: no secret is configured, or the header
\* is "sha1=" followed by the HMAC-SHA1 of the body under the secret
P_Verified ==
    \/ secret = ""
    \/ /\ disp.sig # <<>>
       /\ disp.sig[1].prefix = "sha1="
       /\ disp.sig[1].mac = <<secret, disp.src>>

P_HandledEventTypes ==
    {"git.pullrequest.created", "git.pullrequest.updated",
     "git.pullrequest.merged", "ms.vss-code.git-pullrequest-comment-event",
     "workitem.created", "workitem.updated", "workitem.commented",
     "workitem.resolved", "workitem.closed", "build.complete",
     "ms.vss-release.release-created-event",
     "ms.vss-release.deployment-completed-event",
     "ms.vss-release.release-abandoned-event"}

\* C16: a request is answered 401 exactly when a secret is configured and
\* the signature is missing or wrong, whatever its eventType; 400 exactly
\* when it passes verification without an eventType; it is scheduled for
\* formatting and dispatch exactly when it passes verification with an
\* eventType; a refused request leaves nothing formatted, POSTed or logged.
C16_ScheduledOnlyIfVerified ==
    /\ P_Answered =>
           /\ disp.pc = "401" <=> ~P_Verified
           /\ disp.pc = "400" <=> (P_Verified /\ disp.src.eventType = "")
           /\ disp.pc = "scheduled" <=> (P_Verified /\ disp.src.eventType # "")
    /\ disp.pc \in {"401", "400"} =>
           /\ disp.n = NoNotif /\ disp.snap = <<>> /\ posts = <<>>
           /\ Len(log) = disp.log0
    /\ disp.pc \in {"dropped", "running", "done"} => disp.src.eventType # ""

\* a body without eventType, signed under another key: answered 401
C16_Witness ==
    /\ disp.pc = "401"
    /\ secret # ""
    /\ disp.src.eventType = ""
    /\ disp.sig # <<>> /\ disp.sig[1].prefix = "sha1="
    /\ disp.sig[1].mac # <<secret, disp.src>>

\* every client the dispatch in disp found active and relevant has been
\* POSTed once and has its log entry
P_AllDelivered ==
    \A i \in 1..Len(disp.snap) :
        (disp.snap[i].active /\ ReturnedRelevant(i))
        => (posts[i] = 1 /\ Cardinality(EntriesFor(i)) = 1)

\* C17: when the receiver has answered 200 accepted, nothing has been
\* formatted and no client POSTed yet; and every accepted webhook of a
\* handled event type is eventually formatted and its dispatch returns with
\* every eligible client POSTed and logged.
C17_AcceptedCompletes ==
    /\ [](disp.pc = "scheduled" => (disp.n = NoNotif /\ posts = <<>>))
    /\ (disp.pc = "scheduled" /\ disp.src.eventType \in P_HandledEventTypes)
           ~> (disp.pc = "done" /\ disp.n # NoNotif /\ P_AllDelivered)

\* a webhook accepted under a configured secret was dispatched to the end,
\* with both clients POSTed
C17_Witness ==
    /\ secret # ""
    /\ disp.pc = "done"
    /\ \A i \in 1..Len(disp.snap) : posts[i] = 1
    /\ Len(disp.snap) = Len(HookRegistry)

\* C18: a webhook that passes verification with an eventType that is not a
\* handled one is accepted, and its background task ends at the formatter:
\* nothing is POSTed or logged and no client record changes.
C18_UnhandledDropped ==
    /\ []((P_Answered /\ P_Verified /\ disp.src.eventType # ""
               /\ disp.src.eventType \notin P_HandledEventTypes)
           => disp.pc = "scheduled")
    /\ []((disp.pc = "dropped" \/ disp.src.eventType \notin P_HandledEventTypes)
           => (disp.n = NoNotif /\ posts = <<>> /\ disp.snap = <<>>))
    /\ [][(disp.pc = "scheduled"
               /\ disp.src.eventType \notin P_HandledEventTypes
               /\ disp' # disp)
           => (disp'.pc = "dropped" /\ log' = log /\ clients' = clients)]_vars

C18_Witness ==
    /\ disp.pc = "dropped"
    /\ disp.src.eventType = "weird.event"
    /\ secret # ""

-----------------------------------------------------------------------------
(* Claims about soft-delete *)

\* C19: every step keeps every record of the registry under its id, so the
\* set of client ids only grows; and a DELETE request changes at most the
\* active flag of one record, to false.
C19_RecordsNeverRemoved ==
    [][/\ Len(clients') >= Len(clients)
       /\ \A i \in 1..Len(clients) : clients'[i].id = clients[i].id
       /\ (ops' = ops + 1 /\ reg' = reg /\ upd' = upd /\ disp' = disp)
          => \/ clients' = clients
             \/ \E i \in 1..Len(clients) :
                    clients' = [clients EXCEPT ![i].active = FALSE]]_vars

\* a client that was delivered to has been soft-deleted and is still there
C19_Witness ==
    \E i \in 1..Len(clients) :
        /\ clients[i].id = i
        /\ ~clients[i].active
        /\ clients[i].last_seen # <<>>

\* C20: DELETE on a known id answers success, also when the record is
\* already inactive, and leaves the registry as it was but for that record's
\* active flag, which is false; DELETE on an unknown id answers 404 and
\* changes nothing; a second DELETE answers as the first and leaves the
\* registry as the first left it.
C20_DeleteIdempotent ==
    /\ Len(dl.status) >= 1 =>
           IF \E i \in 1..Len(dl.before) : dl.before[i].id = dl.id
           THEN /\ dl.status[1] = "unregistered"
                /\ Len(dl.once[1]) = Len(dl.before)
                /\ \A i \in 1..Len(dl.before) :
                       IF dl.before[i].id = dl.id
                       THEN dl.once[1][i] = [dl.before[i] EXCEPT !.active = FALSE]
                       ELSE dl.once[1][i] = dl.before[i]
           ELSE /\ dl.status[1] = "404"
                /\ dl.once[1] = dl.before
    /\ Len(dl.status) = 1 => clients = dl.once[1]
    /\ Len(dl.status) = 2 =>
           /\ dl.status[2] = dl.status[1]
           /\ clients = dl.once[1]

\* an already inactive client was deleted twice
C20_Witness ==
    /\ Len(dl.status) = 2
    /\ dl.status = <<"unregistered", "unregistered">>
    /\ \E i \in 1..Len(dl.before) : dl.before[i].id = dl.id /\ ~dl.before[i].active
    /\ Len(clients) = 2

-----------------------------------------------------------------------------
(* Claims about re-registration *)

\* record i is the one the body under evaluation was registered as, and it
\* still carries the fields of that body
P_RegisteredAs(i) ==
    /\ ev.op = "register"
    /\ clients[i].callback_url = ev.body.callback_url
    /\ clients[i].name = ev.body.name
    /\ clients[i].ado_user_id = ev.body.ado_user_id
    /\ clients[i].display_name = ev.body.display_name
    /\ clients[i].subscriptions = ev.body.subscriptions

\* the fields of record i that a registration body carries, and its id
P_BodyFieldsKept(i) ==
    /\ Len(clients') = Len(clients)
    /\ \A j \in 1..Len(clients) : j # i => clients'[j] = clients[j]
    /\ clients'[i].id = clients[i].id
    /\ clients'[i].callback_url = clients[i].callback_url
    /\ clients'[i].name = clients[i].name
    /\ clients'[i].ado_user_id = clients[i].ado_user_id
    /\ clients'[i].display_name = clients[i].display_name
    /\ clients'[i].subscriptions = clients[i].subscriptions

\* C21 as the specification states it: re-registering with the identical body keeps the number
\* of records and the record's id, name, ado_user_id, display_name and
\* subscriptions, and the only change it makes is to bring registered_at or
\* last_seen up to the time of the request.
C21_Original ==
    [][\A i \in 1..Len(clients) :
          (P_RegisteredAs(i) /\ ops' = ops + 1) =>
              /\ P_BodyFieldsKept(i)
              /\ clients'[i].active = clients[i].active
              /\ \/ clients'[i].registered_at = ops'
                 \/ clients'[i].last_seen = <<ops'>>]_vars

\* C21, amended: re-registering with the identical body keeps the number of
\* records and the record's id, name, ado_user_id, display_name and
\* subscriptions; it leaves registered_at and last_seen as they were, and
\* its only effect is that the record is active afterwards.
C21_ReRegisterKeepsRecord ==
    [][\A i \in 1..Len(clients) :
          (P_RegisteredAs(i) /\ ops' = ops + 1) =>
              /\ P_BodyFieldsKept(i)
              /\ clients'[i].registered_at = clients[i].registered_at
              /\ clients'[i].last_seen = clients[i].last_seen
              /\ clients'[i].active]_vars

\* a soft-deleted record that had been delivered to was re-registered
C21_Witness ==
    /\ ev.op = "register"
    /\ ev.status = <<"updated">>
    /\ Len(ev.before) = 2
    /\ ~ev.before[1].active
    /\ ev.before[1].last_seen = <<2>>
    /\ ev.before[1].name = ev.body.name
    /\ clients[1].active
    /\ clients[1].registered_at = 1

-----------------------------------------------------------------------------
(* Claims about manual notifications *)

\* the manual request has loaded the registry
P_ManualSent == disp.n = ManualNotif /\ disp.pc \in {"running", "done"}

\* record i is active and subscribed to manual or to all
P_ManualSubscriber(i) ==
    /\ clients[i].active
    /\ clients[i].subscriptions \cap {"manual", "all"} # {}

\* the log entries for record i
P_Logged(i) == {k \in 1..Len(log) : log[k].client_id = clients[i].id}

\* C22: POST /notifications/send targets exactly the clients dispatch()
\* selects for a manual notification without mentions, which are the active
\* clients subscribed to manual or all, whatever their ado_user_id; each
\* target is POSTed once and logged once, no other client is POSTed or
\* logged, and without targets nothing is POSTed or logged.
C22_ManualTargets ==
    P_ManualSent =>
        /\ \A i \in 1..Len(disp.rel) :
               /\ disp.rel[i] = "true" <=>
                      (IsActive(clients[i]) /\
                       _client_is_relevant(clients[i], ManualNotif,
                                           EmptyGroups).result)
               /\ disp.rel[i] = "true" <=> P_ManualSubscriber(i)
               /\ posts[i] <= 1 /\ Cardinality(P_Logged(i)) <= 1
               /\ ~P_ManualSubscriber(i) => (posts[i] = 0 /\ P_Logged(i) = {})
               /\ (disp.pc = "done" /\ P_ManualSubscriber(i))
                      => (posts[i] = 1 /\ Cardinality(P_Logged(i)) = 1)
        /\ (\A i \in 1..Len(clients) : ~P_ManualSubscriber(i))
               => (disp.pc = "done" /\ posts = <<>> /\ log = <<>>)
        /\ Len(disp.rel) \in {0, Len(clients)}

\* a subscriber to all whose ado_user_id is B was POSTed and logged, next to
\* a soft-deleted subscriber to manual that was not
C22_Witness ==
    /\ P_ManualSent /\ disp.pc = "done"
    /\ Len(clients) = 2
    /\ ~clients[1].active /\ "manual" \in clients[1].subscriptions
    /\ clients[2].ado_user_id = "B" /\ clients[2].subscriptions = {"all"}
    /\ posts = <<0, 1>>
    /\ Len(log) = 1 /\ log[1].client_id = 2

\* C23 as the specification states it: the count returned by POST /notifications/send is the
\* number of clients whose callback POST succeeded.
C23_Original ==
    (P_ManualSent /\ disp.pc = "done") =>
        dispatched_to
            = Cardinality({k \in 1..Len(log) :
                              log[k].event_type = "manual" /\ log[k].success})

\* C23, amended: the count returned by POST /notifications/send is the number
\* of targets, the active clients subscribed to manual or all, each of which
\* was POSTed once, whether or not the POST succeeded.
C23_CountsTargets ==
    (P_ManualSent /\ disp.pc = "done") =>
        /\ dispatched_to
               = Cardinality({i \in 1..Len(clients) : P_ManualSubscriber(i)})
        /\ dispatched_to
               = Cardinality({i \in 1..Len(posts) : posts[i] = 1})

\* two targets, one delivery failed: the response says 2
C23_Witness ==
    /\ P_ManualSent /\ disp.pc = "done"
    /\ dispatched_to = 2
    /\ Len(log) = 2
    /\ \E k \in 1..2 : log[k].success
    /\ \E k \in 1..2 : ~log[k].success

-----------------------------------------------------------------------------
(* Claims about reading the notification log *)

\* get_logs has returned
P_LogsReturned == ev.op = "logs" /\ ev.out # <<>>

\* the entries still held by some log file
P_Retained ==
    {line \in UNION {Range(ev.files[f]) : f \in 1..Len(ev.files)} :
        "appended" \in DOMAIN line}

\* entry e passes the filters given to get_logs
P_PassesFilters(e) ==
    /\ ev.event_type \notin {<<>>, <<"">>} => e.event_type = ev.event_type[1]
    /\ ev.client_id \notin {<<>>, <<"">>} => e.client_id = ev.client_id[1]

\* C24: for every limit >= 0 and any log contents, get_logs returns at most
\* limit entries.
C24_AtMostLimit ==
    P_LogsReturned => Len(ev.out[1]) <= ev.limit

-----------------------------------------------------------------------------
(* Claims about the identity caches *)

\* call m started after call k had returned, for the same id, with ADO
\* configured, and has returned too
P_LaterCall(k, m) ==
    /\ ado_configured
    /\ k \in calls[m].after
    /\ calls[k].kind = calls[m].kind
    /\ calls[k].id = calls[m].id /\ calls[k].id # ""
    /\ calls[m].pc = "returned"

\* C26: once avatar(id), or groups(id), has completed for an id with ADO
\* configured, every later call for that id returns the same value, a null
\* avatar or empty groups included, and sends no request to ADO.
C26_LaterCallsSameValue ==
    \A k, m \in 1..Len(calls) :
        P_LaterCall(k, m) =>
            /\ calls[m].result = calls[k].result
            /\ calls[m].sent = 0

\* C27: an identity cache entry, once written, never changes or disappears,
\* whatever the interleaving of the calls for its id.
C27_EntryNeverChanges ==
    [][\A id \in UIDS :
          /\ avatar_cache[id] # NotCached => avatar_cache'[id] = avatar_cache[id]
          /\ group_cache[id] # NotCached => group_cache'[id] = group_cache[id]]_vars

\* the names a 200 answer carries: providerDisplayName, else
\* customDisplayName, of the items that have one
RECURSIVE P_AnswerNames(_)
P_AnswerNames(value) ==
    IF value = <<>> THEN <<>>
    ELSE LET name == IF Head(value).providerDisplayName # <<>>
                     THEN Head(value).providerDisplayName
                     ELSE Head(value).customDisplayName
         IN  (IF name # <<>> THEN <<name>> ELSE <<>>)
             \o P_AnswerNames(Tail(value))

\* the names of the batches answered 200 among answers 2..n of a call
RECURSIVE P_NamesCollected(_, _)
P_NamesCollected(answers, n) ==
    IF n < 2 THEN <<>>
    ELSE P_NamesCollected(answers, n - 1)
         \o (IF answers[n].status = "200" THEN P_AnswerNames(answers[n].value)
             ELSE <<>>)

\* call k of get_user_groups returns in this step
P_GroupsReturns(k) ==
    /\ k \in 1..Len(calls')
    /\ calls'[k].kind = "groups"
    /\ calls'[k].pc = "returned"
    /\ k \in 1..Len(calls) => calls[k].pc # "returned"

\* C28: groups(id) always returns ids and names: both empty if the
\* membership request failed or was answered non-200; the ids and the names
\* of the batches completed before it if a name-resolution batch failed; and
\* what it returns is what the cache holds for the id when it returns.
C28_GroupsNeverRaises ==
    [][\A k \in 1..MaxCalls :
          P_GroupsReturns(k) =>
              LET c == calls'[k]
                  n == Len(c.answers)
              IN  /\ c.result # <<>>
                  /\ DOMAIN c.result[1] = {"ids", "names"}
                  /\ (n >= 1 /\ c.answers[1].status # "200")
                         => (c.result[1].ids = <<>> /\ c.result[1].names = <<>>)
                  /\ (n >= 2 /\ c.answers[n].status = "error")
                         => /\ c.result[1].ids = c.answers[1].memberOf
                            /\ c.result[1].names
                                   = P_NamesCollected(c.answers, n - 1)
                  /\ (n >= 2 /\ c.answers[n].status # "error")
                         => /\ c.result[1].ids = c.answers[1].memberOf
                            /\ c.result[1].names = P_NamesCollected(c.answers, n)
                  /\ (ado_configured /\ c.id # "")
                         => group_cache'[c.id] = c.result]_vars

\* a call got its ids, the names of a first batch, then a failure
C28_Witness ==
    \E k \in 1..Len(calls) :
        /\ calls[k].kind = "groups" /\ calls[k].pc = "returned"
        /\ Len(calls[k].answers) = 3
        /\ calls[k].answers[2].status = "200"
        /\ calls[k].answers[3].status = "error"
        /\ calls[k].result[1].ids = <<"G1", "G2">>
        /\ calls[k].result[1].names = <<N_FrontendTeam>>
        /\ group_cache[calls[k].id] = calls[k].result

-----------------------------------------------------------------------------
(* Claims about the mentions builder *)

\* the id of the identity at position i: id, else uniqueName
P_Uid(i) ==
    LET ident == ev.identity_dicts[i]
    IN  IF ident.id \notin {NoneVal, ""} THEN ident.id ELSE ident.uniqueName

\* the positions whose identity is included: a non-empty id other than the
\* actor's, at its first occurrence
P_Included ==
    {i \in 1..Len(ev.identity_dicts) :
        /\ P_Uid(i) \notin {"", ev.actor_id}
        /\ \A j \in 1..(i - 1) : P_Uid(j) # P_Uid(i)}

\* the positions of P_Included that have a displayName
P_Named == {i \in P_Included : ev.identity_dicts[i].displayName # <<>>}

\* a set of positions in increasing order
RECURSIVE P_Ascending(_)
P_Ascending(S) ==
    IF S = {} THEN <<>>
    ELSE LET least == CHOOSE i \in S : \A j \in S : i <= j
         IN  <<least>> \o P_Ascending(S \ {least})

\* C29: user_ids holds, in order of first occurrence, exactly the distinct
\* non-empty ids (id, else uniqueName) other than actor_id; names holds the
\* displayName of exactly the included identities that have one; user_ids
\* has no duplicate, no empty id and not actor_id.
C29_MentionsBuilder ==
    (ev.op = "mentions" /\ ev.out # <<>>) =>
        LET out == ev.out[1]
            inc == P_Ascending(P_Included)
            named == P_Ascending(P_Named)
        IN  /\ out.user_ids = [k \in 1..Len(inc) |-> P_Uid(inc[k])]
            /\ out.names
                   = [k \in 1..Len(named) |->
                         ev.identity_dicts[named[k]].displayName]
            /\ \A k, m \in 1..Len(out.user_ids) :
                   k # m => out.user_ids[k] # out.user_ids[m]
            /\ \A k \in 1..Len(out.user_ids) :
                   out.user_ids[k] \notin {"", NoneVal, ev.actor_id}

\* the actor, an identity known by its uniqueName and without displayName,
\* and a third identity were passed: the last two come back, with one name
C29_Witness ==
    /\ ev.op = "mentions" /\ ev.out # <<>>
    /\ ev.actor_id = "A"
    /\ ev.identity_dicts
           = <<I_Alice, [id |-> NoneVal, uniqueName |-> "U", displayName |-> <<>>],
               I_Bob>>
    /\ ev.out[1] = [user_ids |-> <<"U", "B">>, names |-> <<N_Bob>>]

-----------------------------------------------------------------------------
(* Claims about the actor in the mentions *)

\* a notification was formatted for an event of the given types
P_Formatted(event_types) ==
    /\ ev.op = "format"
    /\ ev.out # <<>> /\ ev.out[1] # <<>>
    /\ ev.payload.eventType \in event_types

\* mentions.user_ids of the notification formatted
P_MentionedIds == Range(ev.out[1][1].mentions.user_ids)

P_StatusImage == ev.out[1][1].status_image

\* the string the payload carries under key, "" when it carries none
P_Field(key) == IF key \in DOMAIN ev.payload THEN ev.payload[key] ELSE <<>>

\* text reads word when upper and lower case are not told apart
P_Reads(text, word) ==
    /\ Len(text) = Len(word)
    /\ \A i \in 1..Len(word) :
           \/ text[i] = word[i]
           \/ text[i] \in 65..90 /\ text[i] + 32 = word[i]

\* the image of a finished build or deployment whose result reads as one
\* of the words of success, failure and cancelled
P_ResultImage(result, failures) ==
    IF P_Reads(result, R_succeeded) THEN <<S_success>>
    ELSE IF \E word \in failures : P_Reads(result, word) THEN <<S_failure>>
    ELSE IF P_Reads(result, R_canceled) \/ P_Reads(result, S_cancelled)
    THEN <<S_cancelled>>
    ELSE <<>>

P_FirstLink(links) ==
    LET offered == {i \in 1..Len(links) : links[i] # <<>>}
    IN  IF offered = {} THEN <<>>
        ELSE links[CHOOSE i \in offered : \A j \in offered : i <= j]

\* url is an API url: it contains /_apis/ and not /_workitems
P_ApiUrl(url) ==
    /\ \E i \in 1..(Len(url) - 1) : url[i] = "_apis"
    /\ \A i \in 1..Len(url) : url[i] # "_workitems"

\* C32: for a PR payload the notification url is the first non-empty of
\* _links.web.href, then remoteUrl, then url, and a chosen url that
\* contains /_apis/ and not /_workitems is replaced by the empty string.
C32_UrlPreference ==
    P_Formatted(PR_EVENTS)
        => LET chosen == P_FirstLink(<<P_Field("webHref"),
                                       P_Field("remoteUrl"), P_Field("url")>>)
           IN  ev.out[1][1].url = IF P_ApiUrl(chosen) THEN <<>> ELSE chosen


-----------------------------------------------------------------------------
(* database._write_json under the store lock, with a process that can die:
   SpecStore.  ev.files maps a file name to its content, ev.lock is the
   writer inside "async with _lock" (0 for nobody), ev.w the position of
   each writer. *)

CLIENTS_FILE == "clients.json"

\* faulty variant: the registry is written in place
tmp_path_InPlace(path) == path

\* tmp = path + ".tmp"
tmp_path(path) == "clients.json.tmp"

\* a file that does not exist
NoFile == [exists |-> FALSE, data |-> <<>>, written |-> 0]

\* a file after "written" of the MaxChunks write calls of json.dump(data)
FileOf(data, written) == [exists |-> TRUE, data |-> data, written |-> written]

\* json.load(f) raises on a file that holds part of a document
json_load_raises(file) == ~file.exists \/ file.written < MaxChunks

Writers == {1, 2}

\* save_client(client) and delete_client(client_id) calls
Mutations ==
    [kind : {"save"},
     client : {make_client(1, "u1", "A", {"workitem", "manual"}),
               make_client(2, "u2", "B", {"pr"})}]
    \cup
    [kind : {"delete"}, client_id : {1, 2}]

IdleWriter == [pc |-> "idle", data |-> <<>>]

InitStore ==
    /\ EvalIdle
    /\ clients = <<>>
    /\ ops = 0
    /\ ev = [op |-> "store",
             files |-> [name \in {CLIENTS_FILE, tmp_path(CLIENTS_FILE)} |->
                            IF name = CLIENTS_FILE
                            THEN FileOf(<<make_client(1, "u1", "A", {"pr"})>>,
                                        MaxChunks)
                            ELSE NoFile],
             lock |-> 0, w |-> [p \in Writers |-> IdleWriter],
             started |-> 0, crashes |-> 0]

StoreFrame == UNCHANGED <<rc, rn, rg, rout, dl, secret, idvars, srvvars>>

\* async with _lock: data = _read_json(CLIENTS_FILE), then the change of
\* data in memory; an exception and the return False of delete_client leave
\* the lock at once
LockAndModify(p, m) ==
    /\ ev.op = "store" /\ ev.started < MaxOps
    /\ ev.w[p].pc = "idle" /\ ev.lock = 0
    /\ LET file == ev.files[CLIENTS_FILE]
       IN  IF json_load_raises(file)
           THEN ev' = [ev EXCEPT !.started = @ + 1]
           ELSE IF m.kind = "delete"
                   /\ ~delete_client_found(file.data, m.client_id)
           THEN ev' = [ev EXCEPT !.started = @ + 1]
           ELSE ev' = [ev EXCEPT
                          !.started = @ + 1, !.lock = p,
                          !.w[p] = [pc |-> "modified", m |-> m,
                                    data |-> IF m.kind = "save"
                                             THEN save_client(file.data,
                                                              m.client)
                                             ELSE delete_client(file.data,
                                                                m.client_id)]]
    /\ StoreFrame

\* _write_json: open(tmp, "w") creates or truncates the file
OpenTmp(p) ==
    /\ ev.op = "store" /\ ev.w[p].pc = "modified"
    /\ ev' = [ev EXCEPT !.files[tmp_path(CLIENTS_FILE)] =
                            FileOf(ev.w[p].data, 0),
                        !.w[p].pc = "writing"]
    /\ StoreFrame

\* _write_json: one write call of json.dump; the file is closed after the
\* last one
Dump(p) ==
    /\ ev.op = "store" /\ ev.w[p].pc = "writing"
    /\ LET tmp == tmp_path(CLIENTS_FILE)
       IN  ev' = [ev EXCEPT !.files[tmp].written = @ + 1,
                            !.w[p].pc = IF ev.files[tmp].written + 1
                                           = MaxChunks
                                        THEN "closed" ELSE "writing"]
    /\ StoreFrame

\* _write_json: os.replace(tmp, path)
Replace(p) ==
    /\ ev.op = "store" /\ ev.w[p].pc = "closed"
    /\ LET tmp == tmp_path(CLIENTS_FILE)
       IN  ev' = [ev EXCEPT
                     !.files = IF tmp = CLIENTS_FILE THEN @
                               ELSE [@ EXCEPT
                                        ![CLIENTS_FILE] = ev.files[tmp],
                                        ![tmp] = NoFile],
                     !.w[p].pc = "replaced"]
    /\ StoreFrame

\* the end of "async with _lock"
Unlock(p) ==
    /\ ev.op = "store" /\ ev.w[p].pc = "replaced"
    /\ ev' = [ev EXCEPT !.lock = 0, !.w[p] = IdleWriter]
    /\ StoreFrame

\* the server process dies and is started again: the files stay as they
\* are, init_db finds clients.json and writes nothing
Crash ==
    /\ ev.op = "store" /\ ev.crashes < MaxCrashes
    /\ \E p \in Writers : ev.w[p].pc # "idle"
    /\ ev' = [ev EXCEPT !.lock = 0, !.w = [p \in Writers |-> IdleWriter],
                        !.crashes = @ + 1]
    /\ StoreFrame

NextStore ==
    \/ \E p \in Writers, m \in Mutations : LockAndModify(p, m)
    \/ \E p \in Writers : OpenTmp(p)
    \/ \E p \in Writers : Dump(p)
    \/ \E p \in Writers : Replace(p)
    \/ \E p \in Writers : Unlock(p)
    \/ Crash

SpecStore == InitStore /\ [][NextStore]_vars

\* clients.json holds a whole document
P_StoreComplete ==
    /\ ev.files["clients.json"].exists
    /\ ev.files["clients.json"].written = MaxChunks

\* after is before with the one change m made to it
P_OneMutation(before, m, after) ==
    IF m.kind = "save"
    THEN /\ Len(after) = IF m.client.id <= Len(before) THEN Len(before)
                         ELSE Len(before) + 1
         /\ after[m.client.id] = m.client
         /\ \A i \in 1..Len(before) :
                i # m.client.id => after[i] = before[i]
    ELSE /\ Len(after) = Len(before)
         /\ \A i \in 1..Len(before) :
                after[i] = IF i = m.client_id
                           THEN [before[i] EXCEPT !.active = FALSE]
                           ELSE before[i]

\* C33: clients.json is only ever replaced by renaming a fully written temp
\* file while the store lock is held: at every instant, a crash between the
\* temp write and the rename included, it holds a complete registry equal
\* to the state before or after one single mutation, never a partial write
\* or a mix of two mutations.
C33_AtomicReplace ==
    /\ []P_StoreComplete
    /\ [][ev'.files["clients.json"] # ev.files["clients.json"]
              => \E p \in Writers :
                     /\ ev.lock = p
                     /\ ev.files["clients.json.tmp"].written = MaxChunks
                     /\ ev'.files["clients.json"]
                            = ev.files["clients.json.tmp"]
                     /\ P_OneMutation(ev.files["clients.json"].data,
                                      ev.w[p].m,
                                      ev'.files["clients.json"].data)]_vars

\* the process died between the temp write and the rename: the temp file
\* holds the changed registry and clients.json the one before the change
C33_Witness ==
    /\ ev.op = "store" /\ ev.crashes = 1 /\ ev.lock = 0
    /\ ev.files["clients.json.tmp"].exists
    /\ ev.files["clients.json.tmp"].written = MaxChunks
    /\ ev.files["clients.json.tmp"].data # ev.files["clients.json"].data
    /\ P_StoreComplete


\* the lines of the log files, oldest line first
RECURSIVE P_OldestFirst(_)
P_OldestFirst(files) ==
    IF files = <<>> THEN <<>>
    ELSE P_OldestFirst(Tail(files)) \o Head(files)

\* the step appended a line after rolling the active file over
P_RolledOver ==
    /\ ev.op = "logs"
    /\ ev'.written = ev.written + 1
    /\ Len(ev'.files[1]) <= Len(ev.files[1])

\* C34: after any sequence of append_log calls at most LOG_BACKUP_COUNT
\* backup files exist beside the active log, a rotation moves the active
\* file to .1 and each .k to .k+1 while dropping the oldest, and the entries
\* retained across all files are a contiguous most-recent suffix of the
\* append sequence.
C34_Rotation ==
    /\ [](ev.op = "logs"
            => /\ Len(ev.files) <= 1 + LOG_BACKUP_COUNT
               /\ LET held == P_OldestFirst(ev.files)
                  IN  \A i \in 1..Len(held) :
                          "appended" \in DOMAIN held[i]
                              => held[i].appended
                                     = ev.written - Len(held) + i)
    /\ [][P_RolledOver
              => /\ Len(ev'.files[1]) = 1
                 /\ Len(ev'.files) = 1 + (IF Len(ev.files) < LOG_BACKUP_COUNT
                                          THEN Len(ev.files)
                                          ELSE LOG_BACKUP_COUNT)
                 /\ \A k \in 1..(Len(ev'.files) - 1) :
                        ev'.files[k + 1] = ev.files[k]]_vars

\* the oldest rolled file has been dropped: fewer lines are held than were
\* written, in the active file and LOG_BACKUP_COUNT rolled files
C34_Witness ==
    /\ ev.op = "logs"
    /\ Len(ev.files) = 1 + LOG_BACKUP_COUNT
    /\ Len(P_OldestFirst(ev.files)) < ev.written
    /\ \E i \in 1..Len(ev.files[1]) : "appended" \in DOMAIN ev.files[1][i]


\* the step is the save of a register request for this callback_url
P_RegisterSaves(callback_url) ==
    \E p \in DOMAIN reg :
        /\ reg[p].pc = "looked" /\ reg'[p].pc # "looked"
        /\ reg[p].body.callback_url = callback_url

\* C35: once DELETE /clients/{id} has succeeded the record stays
\* active = false until a later register request with its callback_url:
\* neither the last_seen save of a dispatch that loaded the registry before
\* the delete nor a subscription update that read the record before the
\* delete sets it back to active.
C35_DeletedStaysInactive ==
    [][\A i \in 1..Len(clients) :
           (~clients[i].active /\ clients'[i].active)
               => P_RegisterSaves(clients[i].callback_url)]_vars


-----------------------------------------------------------------------------
(* The server started on a registry that holds a soft-deleted record:
   SpecRejoin *)

RejoinRegistry ==
    <<[make_client(1, "u1", "A", {"pr"}) EXCEPT !.active = FALSE]>>

InitRejoin ==
    /\ RelIdle
    /\ secret = ""
    /\ clients = RejoinRegistry
    /\ ops = 1
    /\ InitRequests
    /\ seq = FALSE

SpecRejoin == InitRejoin /\ [][Next]_vars

\* the step is the save of a register request that found a soft-deleted
\* record under its callback_url
P_Reactivates(p) ==
    /\ reg[p].pc = "looked" /\ reg'[p].pc # "looked"
    /\ reg[p].existing # <<>>
    /\ ~reg[p].existing[1].active

\* the step is the registry load of a dispatch started by a webhook
P_DispatchLoads == disp.pc = "scheduled" /\ disp'.pc = "running"

\* C36: registering with the callback_url of a soft-deleted record
\* reactivates that same record (same id, active = true, fields overwritten
\* from the request body) instead of creating a second record, and a
\* dispatch that loads the registry afterwards takes every record that is
\* active in it, the reactivated one included, as eligible.
C36_Reactivation ==
    [][/\ \A p \in DOMAIN reg :
              P_Reactivates(p)
                  => LET old == reg[p].existing[1]
                         new == clients'[old.id]
                     IN  /\ Len(clients') = Len(clients)
                         /\ new.id = old.id
                         /\ new.callback_url = reg[p].body.callback_url
                         /\ new.active
                         /\ new.ado_user_id = reg[p].body.ado_user_id
                         /\ new.subscriptions = reg[p].body.subscriptions
                         /\ \A i \in 1..Len(clients) :
                                i # old.id => clients'[i] = clients[i]
       /\ P_DispatchLoads
              => /\ disp'.snap = clients
                 /\ \A i \in 1..Len(clients) :
                        clients[i].active => disp'.rel[i] # "skip"]_vars

\* the soft-deleted record was reactivated under its id, the registry still
\* holds one record, and a later dispatch has POSTed to it
C36_Witness ==
    /\ Len(clients) = 1 /\ clients[1].active
    /\ clients[1].callback_url = "u1" /\ clients[1].ado_user_id = "B"
    /\ reg[1].pc = "updated"
    /\ disp.pc = "running" /\ disp.snap[1].active /\ posts[1] = 1


-----------------------------------------------------------------------------
(* The webhook pipeline on payloads with missing and wrongly typed fields:
   SpecDrop *)

DropPayloads ==
    [eventType : {"git.pullrequest.created"},
     createdBy : {I_Alice, I_Bob, PlainText("Alice"), JsonNull},
     closedBy : {<<>>},
     reviewers : {<<I_Bob, I_Team>>, <<I_Team>>, <<PlainText("Bob")>>},
     commentAuthor : {NoIdentity}]
    \cup
    [eventType : {"workitem.updated"}, assignedTo : {I_Bob, PlainText("Bob")},
     changedBy : {I_Alice}, workItemType : {T_Bug, NotAString}]
    \cup
    [eventType : {"workitem.commented"}, assignedTo : {I_Bob},
     changedBy : {I_Alice}]
    \cup
    [eventType : {"build.complete"}, requestedFor : {I_Bob, JsonNull},
     result : {R_failed, NotAString}]

\* two clients subscribed to everything
DropRegistry ==
    <<make_client(1, "u1", "A", {"all"}), make_client(2, "u2", "B", {"all"})>>

InitDrop ==
    /\ RelIdle
    /\ secret = ""
    /\ clients = DropRegistry
    /\ ops = Len(DropRegistry)
    /\ InitRequests
    /\ seq = FALSE

NextDrop ==
    \/ \E payload \in DropPayloads : receive_webhook(payload, <<>>)
    \/ TaskStep

SpecDrop == InitDrop /\ [][NextDrop]_vars

\* a field the formatter of this event calls a method on holds a value of
\* the wrong type
P_Unreadable(payload) ==
    \/ /\ payload.eventType = "git.pullrequest.created"
       /\ \/ "id" \notin DOMAIN payload.createdBy
          \/ \E i \in 1..Len(payload.reviewers) :
                 "text" \in DOMAIN payload.reviewers[i]
    \/ /\ payload.eventType = "workitem.updated"
       /\ payload.workItemType = <<-1>>
    \/ /\ payload.eventType = "build.complete"
       /\ \/ "id" \notin DOMAIN payload.requestedFor
          \/ payload.result = <<-1>>

\* C37: format_webhook never raises: for any payload, one with missing or
\* wrongly typed fields included, it returns a notification or null, and a
\* null result makes the event be dropped with no POST, no log entry and no
\* change to any client record.
C37_FormatNeverRaises ==
    /\ [](disp.pc # "raised")
    /\ [](disp.pc \in {"running", "done"}
            => /\ disp.n.event_type \in {"pr", "workitem", "pipeline"}
               /\ ~P_Unreadable(disp.src))
    /\ [](disp.pc = "dropped"
            => (disp.n = NoNotif /\ disp.snap = <<>> /\ posts = <<>>))
    /\ [][(disp.pc = "scheduled" /\ disp' # disp)
              => /\ disp'.pc \in {"dropped", "running"}
                 /\ disp'.pc = "dropped"
                        => /\ log' = log /\ clients' = clients
                           /\ posts' = posts]_vars

\* a pull request whose createdBy is a string instead of an identity was
\* accepted and then dropped by the background task
C37_Witness ==
    /\ disp.pc = "dropped"
    /\ disp.src.eventType = "git.pullrequest.created"
    /\ "text" \in DOMAIN disp.src.createdBy
    /\ clients = DropRegistry


-----------------------------------------------------------------------------
(* One webhook whose candidates for a mention are absent or are the actor,
   dispatched to enumerated registries: SpecBroadcast *)

BroadcastPayloads ==
    [eventType : {"git.pullrequest.created", "git.pullrequest.updated"},
     createdBy : {I_Alice}, closedBy : {<<>>},
     reviewers : {<<>>, <<I_Alice>>, <<I_Team>>},
     commentAuthor : {NoIdentity}]
    \cup
    [eventType : {"workitem.updated"},
     assignedTo : {NoIdentity, I_Alice, I_Bob}, changedBy : {I_Alice}]
    \cup
    [eventType : {"ms.vss-release.release-created-event"},
     requestedFor : {NoIdentity}, createdBy : {I_Alice, NoIdentity},
     modifiedBy : {NoIdentity}]

BroadcastSubs == {{"pr"}, {"workitem", "pipeline"}, {"all"}}

\* the first client is Alice's, registered or soft-deleted; the second is
\* Bob's or has no Azure DevOps identity
BroadcastRegistries ==
    {<<[make_client(1, "u1", "A", s1) EXCEPT !.active = a1],
       make_client(2, "u2", uid2, s2)>> :
         a1 \in BOOLEAN, s1 \in BroadcastSubs, uid2 \in {"B", ""},
         s2 \in BroadcastSubs}

InitBroadcast ==
    /\ RelIdle
    /\ secret = ""
    /\ clients \in BroadcastRegistries
    /\ ops = MaxOps - 1
    /\ InitRequests
    /\ seq = FALSE

NextBroadcast ==
    \/ \E payload \in BroadcastPayloads : receive_webhook(payload, <<>>)
    \/ TaskStep

SpecBroadcast == InitBroadcast /\ [][NextBroadcast]_vars

\* every candidate for a mention is absent or is the actor
P_NoCandidate(payload) ==
    IF payload.eventType \in {"git.pullrequest.created",
                              "git.pullrequest.updated"}
    THEN \A i \in 1..Len(payload.reviewers) :
             payload.reviewers[i].id \in {NoneVal, payload.createdBy.id}
    ELSE IF payload.eventType = "workitem.updated"
    THEN payload.assignedTo.id \in {NoneVal, payload.changedBy.id}
    ELSE payload.eventType = "ms.vss-release.release-created-event"

\* the event type of the notification made from the payload
P_Family(payload) ==
    IF payload.eventType = "workitem.updated" THEN "workitem"
    ELSE IF payload.eventType = "ms.vss-release.release-created-event"
    THEN "pipeline"
    ELSE "pr"

\* the id of who did what the payload reports
P_Actor(payload) ==
    IF payload.eventType = "workitem.updated" THEN payload.changedBy.id
    ELSE payload.createdBy.id

\* C38: a notification whose mentions end up empty because every candidate
\* identity was absent or was the actor is a broadcast: it is POSTed to
\* every active client subscribed to its event type except the client whose
\* ado_user_id is the actor.
C38_EmptyMentionsBroadcast ==
    (disp.pc = "done" /\ disp.src.eventType # ""
        /\ P_NoCandidate(disp.src))
        => /\ disp.n.mentions.user_ids = <<>>
           /\ disp.n.mentions.names = <<>>
           /\ \A i \in 1..Len(disp.snap) :
                  posts[i] =
                      IF /\ disp.snap[i].active
                         /\ \/ P_Family(disp.src) \in disp.snap[i].subscriptions
                            \/ "all" \in disp.snap[i].subscriptions
                         /\ ~(/\ P_Actor(disp.src) # NoneVal
                              /\ disp.snap[i].ado_user_id = P_Actor(disp.src))
                      THEN 1 ELSE 0

\* a work item changed by its assignee Alice went to the other subscriber
\* and not to Alice's client, which is active and subscribed
C38_Witness ==
    /\ disp.pc = "done"
    /\ disp.src.eventType = "workitem.updated"
    /\ disp.src.assignedTo = I_Alice /\ disp.src.changedBy = I_Alice
    /\ disp.snap[1].active /\ "all" \in disp.snap[1].subscriptions
    /\ posts = <<0, 1>>


-----------------------------------------------------------------------------
(* Claims about the snapshot and the two phases of a dispatch *)

\* C39: a dispatch decides its recipients from the registry it loaded at
\* its start: a client registered or reactivated after the load is not
\* POSTed by it, and a client soft-deleted or unsubscribed from the event
\* type after the load is still POSTed by it.
C39_RecipientsFromSnapshot ==
    disp.pc \in {"running", "done"}
        => /\ Len(posts) = Len(disp.snap)
           /\ \A i \in 1..Len(disp.snap) :
                  /\ posts[i] > 0
                         => (disp.snap[i].active /\ ReturnedRelevant(i))
                  /\ (disp.pc = "done" /\ disp.snap[i].active
                          /\ ReturnedRelevant(i))
                         => posts[i] = 1

\* a dispatch has ended with its POST to a client that is soft-deleted in
\* the registry, and without a POST to anyone registered after its load
C39_Witness ==
    /\ disp.pc = "done" /\ disp.n.event_type = "pr"
    /\ Len(disp.snap) = 1 /\ posts = <<1>>
    /\ ~clients[1].active

\* a dispatch has ended without a POST to the client that registered, with
\* a matching subscription, after its load
C39_WitnessLate ==
    /\ disp.pc = "done" /\ disp.n.event_type = "pr"
    /\ Len(disp.snap) < Len(clients)
    /\ \E i \in (Len(disp.snap) + 1)..Len(clients) :
           clients[i].active /\ "pr" \in clients[i].subscriptions

\* C40: within a dispatch no client is POSTed until is_relevant has
\* completed for every active client: while the group lookup for one client
\* is pending no delivery of that dispatch has started.
C40_RelevanceBarrier ==
    disp.pc = "running"
        => ((\E i \in 1..Len(disp.snap) : posts[i] > 0)
               => \A j \in 1..Len(disp.snap) :
                      disp.rel[j] \in {"skip", "true", "false"})

\* one client is known to be relevant and has no POST yet, while the group
\* lookup for another client is pending
C40_Witness ==
    /\ disp.pc = "running"
    /\ \E i, j \in 1..Len(disp.snap) :
           /\ disp.rel[i] = "true" /\ posts[i] = 0
           /\ disp.rel[j] = "fetching"

====
